---- MODULE Spec2Model ----
(***************************************************************************)
(* A model of the sophon coordinator: the session store with the request   *)
(* handlers that write it, the agent registry with heartbeat               *)
(* reconciliation, the reaper, and the event hub.                          *)
(*                                                                         *)
(* Every request is served by a worker of its own (net/http starts one     *)
(* goroutine per request) and workers run concurrently.  Every store call, *)
(* registry call and hub call is one atomic step (the store executes one   *)
(* SQL statement at a time, the registry and the hub hold a mutex); a      *)
(* handler is a sequence of such steps and other workers may run between   *)
(* any two of them.  A clock reading taken between two store calls of a    *)
(* handler is taken with the one before or with the one after.             *)
(*                                                                         *)
(* Times are counted in clock ticks, TicksPerSecond to the second.  The    *)
(* store keeps times as RFC3339 strings with whole seconds, so a time that *)
(* went through the store is truncated to the second; 0 is Go's zero time  *)
(* and SQL NULL.  Session fields that no handler branches on (cwd,         *)
(* project, notification text) are left out.                               *)
(***************************************************************************)
EXTENDS Integers, Sequences, FiniteSets, TLC

\* ---------------------------------------------------------------- bounds
MaxTicks == 1           \* clock advances in one run
TicksPerSecond == 2     \* clock resolution

\* ------------------------------------------------------ program constants
agentStaleTimeout == 90         \* seconds
stoppedSessionTTL == 86400      \* seconds (24 * time.Hour)

\* ------------------------------------------------------------ input sets
IDs == {"s1", "s2", "s3", "s4"}
Nodes == {"n1", "n2"}
NoPane == ""
RealPanes == {"p0", "p1", "p2"}
\* A session ID is assigned by one agent process, which runs on one node.
NodeOf(id) == IF id = "s4" THEN "n2" ELSE "n1"
\* The panes a create-session request names.
CreatePanes == {NoPane, "p0", "p1"}
Workers == {"w1", "w2"}
EventTypes == {"notification", "activity", "session_end", "session_start", "response"}

VARIABLES
    now,        \* the wall clock, in ticks
    ticks,      \* clock advances so far
    sessions,   \* the sessions table: ID -> row
    agents,     \* AgentRegistry.agents: node -> LastSeen (0: not registered)
    published,  \* EventHub.Publish calls so far: <<type, id>> -> count
    pc,         \* per worker: the handler step it is about to take
    req,        \* per worker: the decoded request
    loc,        \* per worker: the handler's local variables
    \* The event hub in detail (server/events.go).
    mu,         \* EventHub.mu: the process holding it, or "free"
    subs,       \* EventHub.subs: key -> set of channels
    queue,      \* per channel: the buffered events, oldest first
    spc,        \* per channel: where its Subscribe / unsubscribe caller is
    skey,       \* per channel: the key it was subscribed with
    unsubs,     \* per channel: unsubscribe calls that have returned
    recvd,      \* per channel: the events its reader has taken, in order
    offered,    \* per channel: the events Publish tried to send it, in order
    hpc,        \* per publisher: where its Publish call is
    hkey,       \* per publisher: the sessionID argument
    hevt,       \* per publisher: the event, named by its sequence number
    hrem,       \* per publisher: the channels of chs not sent to yet
    hseq,       \* Publish calls that have taken their snapshot so far
    hmax,       \* the number of Publish calls of this run
    hdone,      \* the events whose Publish call has returned
    hbefore,    \* per event: the events whose Publish had returned when its own began
    hsess,      \* per event: the sessionID it was published with
    \* The proxy to the agents (agentProxyOps).
    pres,       \* the latest node-local operation and its outcome
    \* The reaper's log.
    reap,       \* the runs of the reaper so far, and what the latest returned
    \* The daemon that pushes notifications itself.
    ntfy,       \* the requests the ntfy endpoint got, in order
    \* The agent's pane discovery (tmux package).
    panes,      \* parseTmuxPanes: pane ID -> PID of the pane's shell
    procs,      \* parseProcesses: PID -> parent PID and command name
    result,     \* findClaudePanes: the pane IDs reported alive
    dpc,        \* ListClaudePanes: the step it is about to take
    \* The transcript reader (transcript package).
    lines,      \* the JSONL file: the entries of the log, in order
    nread,      \* the lines the scanner has returned so far
    toolResults,\* Read: tool_use_id -> text of its result
    messages,   \* Read: the display messages so far
    tpc,        \* Read: the step it is about to take
    \* One call of hasClaudeDescendant, a loop iteration at a time.
    shellPID,   \* the PID the search starts from
    bfsQueue,   \* the local queue
    found,      \* the value returned
    bpc,        \* the step it is about to take
    \* The machine of node n1 and its agent's heartbeat.
    live,       \* the panes that host a running claude process right now
    beat        \* the register request on its way to the coordinator

lifeVars == <<now, ticks, sessions, agents, published, pc, req, loc>>
hubVars == <<mu, subs, queue, spc, skey, unsubs, recvd, offered,
             hpc, hkey, hevt, hrem, hseq, hmax, hdone, hbefore, hsess>>
proxyVars == <<pres>>
reapVars == <<reap>>
pushVars == <<ntfy>>
discVars == <<panes, procs, result, dpc>>
transVars == <<lines, nread, toolResults, messages, tpc>>
searchVars == <<shellPID, bfsQueue, found, bpc>>
fleetVars == <<live, beat>>
leafVars == <<pushVars, discVars, transVars, searchVars, fleetVars>>
vars == <<lifeVars, hubVars, proxyVars, reapVars, leafVars>>

\* ------------------------------------------------------------ store rows
Absent == [present |-> FALSE, node |-> "", pane |-> NoPane,
           started |-> 0, last |-> 0, stopped |-> 0]

IsZero(t) == t = 0

\* t.UTC().Format(time.RFC3339) followed by time.Parse: whole seconds survive.
formatTime(t) == (t \div TicksPerSecond) * TicksPerSecond

\* nil (NULL) for the zero time, else the formatted time.
formatNullableTime(t) == IF IsZero(t) THEN 0 ELSE formatTime(t)

Row(sess) == [present |-> TRUE, node |-> sess.node, pane |-> sess.pane,
              started |-> formatTime(sess.started),
              last |-> formatNullableTime(sess.last),
              stopped |-> formatNullableTime(sess.stopped)]

\* INSERT OR REPLACE: upsert by ID, every column replaced.
CreateSession(tbl, id, sess) == [tbl EXCEPT ![id] = Row(sess)]

\* SELECT ... WHERE id = ?; Absent stands for ErrNotFound.
GetSession(tbl, id) == tbl[id]

\* UPDATE ... WHERE id = ?: every column replaced; no row, no change (ErrNotFound).
UpdateSession(tbl, id, sess) ==
    IF tbl[id].present THEN [tbl EXCEPT ![id] = Row(sess)] ELSE tbl

IsActive(row) == row.present /\ IsZero(row.stopped)

\* A list of every row, stopped or not.
ListActiveSessions_All(tbl) == {id \in IDs : tbl[id].present}

\* WHERE stopped_at IS NULL
ListActiveSessions(tbl) == {id \in IDs : IsActive(tbl[id])}

\* WHERE stopped_at IS NOT NULL
StoppedSessions(tbl) == {id \in IDs : tbl[id].present /\ ~IsZero(tbl[id].stopped)}

\* ... ORDER BY stopped_at DESC LIMIT ?: the results the query can give, one
\* for every order of the rows that stopped in the same second.
ListRecentSessions(tbl, limit) ==
    {R \in SUBSET StoppedSessions(tbl) :
        /\ Cardinality(R) = IF Cardinality(StoppedSessions(tbl)) < limit
                             THEN Cardinality(StoppedSessions(tbl)) ELSE limit
        /\ \A a \in R, b \in StoppedSessions(tbl) \ R : tbl[a].stopped >= tbl[b].stopped}

\* The limits ListRecentSessions is called with: the sessions API asks for 20.
RecentLimits == {1, 20}

\* WHERE node_name = ? AND stopped_at IS NULL
ListActiveSessionsByNode(tbl, node) ==
    {id \in IDs : IsActive(tbl[id]) /\ tbl[id].node = node}

\* The IDs StopSessionsByPane stops: the other active sessions on (node, pane).
StoppedByPane(tbl, node, pane, exceptID) ==
    IF pane = NoPane THEN {}
    ELSE {id \in IDs : /\ IsActive(tbl[id])
                        /\ tbl[id].node = node
                        /\ tbl[id].pane = pane
                        /\ id # exceptID}

\* Marks stopped_at on every active session of ids, leaves the others alone.
StopSessions(tbl, ids, t) ==
    [id \in IDs |-> IF id \in ids /\ IsActive(tbl[id])
                    THEN [tbl[id] EXCEPT !.stopped = formatTime(t)]
                    ELSE tbl[id]]

StopSessionsByPane(tbl, node, pane, exceptID, t) ==
    StopSessions(tbl, StoppedByPane(tbl, node, pane, exceptID), t)

\* A reaper whose cutoff second is itself reaped.
Reaped_Inclusive(tbl, t) ==
    {id \in IDs : /\ tbl[id].present
                  /\ ~IsZero(tbl[id].stopped)
                  /\ tbl[id].stopped <= formatTime(t - stoppedSessionTTL * TicksPerSecond)}

\* DELETE ... WHERE stopped_at IS NOT NULL AND stopped_at < cutoff RETURNING id
Reaped(tbl, t) ==
    {id \in IDs : /\ tbl[id].present
                  /\ ~IsZero(tbl[id].stopped)
                  /\ tbl[id].stopped < formatTime(t - stoppedSessionTTL * TicksPerSecond)}

ReapStoppedSessions(tbl, t) ==
    [id \in IDs |-> IF id \in Reaped(tbl, t) THEN Absent ELSE tbl[id]]

\* ------------------------------------------------------- agent registry
\* AgentRegistry.Register
Register(reg, node, t) == [reg EXCEPT ![node] = t]

\* A staleness test that still passes at the full window.
IsHealthy_Inclusive(reg, node, t) ==
    reg[node] # 0 /\ t - reg[node] <= agentStaleTimeout * TicksPerSecond

\* AgentRegistry.IsHealthy
IsHealthy(reg, node, t) ==
    reg[node] # 0 /\ t - reg[node] < agentStaleTimeout * TicksPerSecond

\* ------------------------------------------------------ agentProxyOps
\* What the call to the agent comes back with, when one is made.
RemoteOutcomes == {"yes", "no", "error"}

NoProxy == [op |-> "none", node |-> "", called |-> FALSE,
            focused |-> FALSE, tr |-> "empty", err |-> "nil"]

\* agentProxyOps.PaneFocused: false without a healthy agent or on an error.
PaneFocused(reg, node, t, remote) ==
    IF reg[node] = 0 \/ ~IsHealthy(reg, node, t)
    THEN [NoProxy EXCEPT !.op = "focus", !.node = node]
    ELSE [NoProxy EXCEPT !.op = "focus", !.node = node, !.called = TRUE,
                         !.focused = (remote = "yes")]

\* SendKeys that asks only whether the node ever registered.
SendKeys_RegisteredOnly(reg, node, t, remote) ==
    IF reg[node] = 0
    THEN [NoProxy EXCEPT !.op = "sendkeys", !.node = node, !.err = "no healthy agent"]
    ELSE [NoProxy EXCEPT !.op = "sendkeys", !.node = node, !.called = TRUE,
                         !.err = IF remote = "error" THEN "agent error" ELSE "nil"]

\* agentProxyOps.SendKeys: an error of its own without a healthy agent, else
\* the agent's answer.
SendKeys(reg, node, t, remote) ==
    IF reg[node] = 0 \/ ~IsHealthy(reg, node, t)
    THEN [NoProxy EXCEPT !.op = "sendkeys", !.node = node, !.err = "no healthy agent"]
    ELSE [NoProxy EXCEPT !.op = "sendkeys", !.node = node, !.called = TRUE,
                         !.err = IF remote = "error" THEN "agent error" ELSE "nil"]

\* agentProxyOps.ReadTranscript: an empty transcript and no error without a
\* healthy agent or on an error of the agent.
ReadTranscript(reg, node, t, remote) ==
    IF reg[node] = 0 \/ ~IsHealthy(reg, node, t)
    THEN [NoProxy EXCEPT !.op = "transcript", !.node = node]
    ELSE [NoProxy EXCEPT !.op = "transcript", !.node = node, !.called = TRUE,
                         !.tr = IF remote = "error" THEN "empty" ELSE "read"]

\* ------------------------------------------------------------ heartbeat
\* The outcome of the agent's pane detection: an error, or a set of panes.
Detections == {[ok |-> FALSE, panes |-> {}]} \cup
              {[ok |-> TRUE, panes |-> A] : A \in SUBSET RealPanes}

\* Agent.register: the payload before encoding.  AlivePanes stays nil when
\* detection failed, and is a (possibly empty) non-nil slice otherwise.
heartbeatPayload(node, det) ==
    [node |-> node, nonNil |-> det.ok, alive |-> IF det.ok THEN det.panes ELSE {}]

\* json.Marshal of the payload: `alive_panes,omitempty` on a slice leaves the
\* field out when the slice has no elements, nil or not.
Marshal(payload) ==
    [node |-> payload.node,
     hasAlive |-> payload.nonNil /\ payload.alive # {},
     alive |-> payload.alive]

\* A decode into a plain []string: an absent field reads as an empty list.
DecodeRegister_NoPointer(body) ==
    [node |-> body.node, aliveNonNil |-> TRUE, alive |-> body.alive]

\* handleAgentRegister's decode into *[]string: nil iff the field is absent.
DecodeRegister(body) ==
    [node |-> body.node, aliveNonNil |-> body.hasAlive, alive |-> body.alive]

\* The loop without its look-up in aliveSet.
ToStop_IgnoreAlive(tbl, active, alive) ==
    {id \in active : tbl[id].pane # NoPane}

\* reconcileSessions, the loop that picks the sessions to stop.
ToStop(tbl, active, alive) ==
    {id \in active : tbl[id].pane # NoPane /\ tbl[id].pane \notin alive}

\* reconcileSessions as far as the store goes: list, pick, stop.
reconcileSessions(tbl, node, alive, t) ==
    StopSessions(tbl, ToStop(tbl, ListActiveSessionsByNode(tbl, node), alive), t)

\* ------------------------------------------------------------ event hub
Publish(pub, type, ids) ==
    [k \in EventTypes \X IDs |->
        IF k[1] = type /\ k[2] \in ids THEN pub[k] + 1 ELSE pub[k]]

\* ------------------------------------------------------------- workers
NoReq == [op |-> "none", id |-> "", node |-> "", pane |-> NoPane,
          aliveNonNil |-> FALSE, alive |-> {}, det |-> [ok |-> FALSE, panes |-> {}],
          status |-> 0]
NoLoc == [sess |-> Absent, ids |-> {}, t |-> 0, tmux |-> <<>>]

\* A worker that has not got its request yet.  Workers are interchangeable:
\* w1 is the one that starts first.
Accepting(w) ==
    /\ pc[w] = "idle"
    /\ w = "w1" \/ pc["w1"] # "idle"

\* The handler of `op` writes its response with the status `code` and returns.
Reply(w, op, code) ==
    /\ pc' = [pc EXCEPT ![w] = "done"]
    /\ req' = [req EXCEPT ![w] = [NoReq EXCEPT !.op = op, !.status = code]]
    /\ loc' = [loc EXCEPT ![w] = NoLoc]

Goto(w, label) == pc' = [pc EXCEPT ![w] = label]

\* The sessions table is a database file that outlives the daemon: the daemon
\* starts on whatever rows an earlier run left.  Three such tables: an empty
\* one; one session on each of three panes of n1 and one on n2; a pane of n1
\* whose first session was stopped by the dedup when the second one started.
ActiveRow(node, pane, t) ==
    [present |-> TRUE, node |-> node, pane |-> pane,
     started |-> t, last |-> t, stopped |-> 0]

StartTime == TicksPerSecond

PersistedTables ==
    { [id \in IDs |-> Absent],
      [id \in IDs |->
          CASE id = "s1" -> ActiveRow("n1", "p0", StartTime)
            [] id = "s2" -> ActiveRow("n1", "p1", StartTime)
            [] id = "s3" -> ActiveRow("n1", "p2", StartTime)
            [] OTHER -> ActiveRow("n2", "p0", StartTime)],
      [id \in IDs |->
          CASE id = "s1" -> [ActiveRow("n1", "p0", StartTime) EXCEPT !.stopped = StartTime]
            [] id = "s2" -> ActiveRow("n1", "p0", StartTime)
            [] OTHER -> Absent] }

\* No pane discovery has run.
DiscIdle ==
    /\ panes = <<>>
    /\ procs = <<>>
    /\ result = {}
    /\ dpc = "idle"

\* No transcript is being read.
ReadIdle ==
    /\ lines = <<>>
    /\ nread = 0
    /\ toolResults = <<>>
    /\ messages = <<>>
    /\ tpc = "idle"

\* No descendant search is running.
SearchIdle ==
    /\ shellPID = 0
    /\ bfsQueue = <<>>
    /\ found = FALSE
    /\ bpc = "idle"

NoBeat == [sent |-> FALSE, body |-> <<>>]

\* The machine of node n1 runs no agent process, no heartbeat is on its way.
FleetIdle ==
    /\ live = {}
    /\ beat = NoBeat

\* The daemon starts at the time t0 on one of the tables.
LifeInitAt(tables, t0) ==
    /\ now = t0
    /\ ticks = 0
    /\ sessions \in tables
    /\ agents = [n \in Nodes |-> 0]
    /\ published = [k \in EventTypes \X IDs |-> 0]
    /\ pc = [w \in Workers |-> "idle"]
    /\ req = [w \in Workers |-> NoReq]
    /\ loc = [w \in Workers |-> NoLoc]
    /\ pres = NoProxy
    /\ reap = [n |-> 0, ids |-> {}]
    /\ ntfy = <<>>
    /\ DiscIdle
    /\ ReadIdle
    /\ SearchIdle
    /\ FleetIdle

LifeInit(tables) == LifeInitAt(tables, StartTime)

\* ----------------------------------------------------- handleCreateSession
\* Decode the request and s.store.CreateSession(sess).
CreateStore(w) ==
    /\ Accepting(w)
    /\ \E id \in IDs, pane \in CreatePanes :
        /\ req' = [req EXCEPT ![w] = [NoReq EXCEPT !.op = "create", !.id = id,
                                                   !.node = NodeOf(id), !.pane = pane]]
        /\ sessions' = CreateSession(sessions, id,
                          [node |-> NodeOf(id), pane |-> pane, started |-> now,
                           last |-> now, stopped |-> 0])
        /\ Goto(w, IF pane # NoPane THEN "create_dedup" ELSE "create_publish")
    /\ UNCHANGED <<now, ticks, agents, published, loc>>
    /\ UNCHANGED <<hubVars, proxyVars, reapVars, leafVars>>

\* The dedup without the new session's ID as the one to spare.
CreateDedup_NoExcept(w) ==
    /\ pc[w] = "create_dedup"
    /\ loc' = [loc EXCEPT ![w].ids =
                  StoppedByPane(sessions, req[w].node, req[w].pane, "")]
    /\ sessions' = StopSessionsByPane(sessions, req[w].node, req[w].pane, "", now)
    /\ Goto(w, "create_publish")
    /\ UNCHANGED <<now, ticks, agents, published, req>>
    /\ UNCHANGED <<hubVars, proxyVars, reapVars, leafVars>>

\* Same-pane dedup: s.store.StopSessionsByPane(node, pane, id).
CreateDedup(w) ==
    /\ pc[w] = "create_dedup"
    /\ loc' = [loc EXCEPT ![w].ids =
                  StoppedByPane(sessions, req[w].node, req[w].pane, req[w].id)]
    /\ sessions' = StopSessionsByPane(sessions, req[w].node, req[w].pane, req[w].id, now)
    /\ Goto(w, "create_publish")
    /\ UNCHANGED <<now, ticks, agents, published, req>>
    /\ UNCHANGED <<hubVars, proxyVars, reapVars, leafVars>>

\* session_end for every session the dedup stopped, then session_start.
CreatePublish(w) ==
    /\ pc[w] = "create_publish"
    /\ published' = Publish(Publish(published, "session_end", loc[w].ids),
                            "session_start", {req[w].id})
    /\ Reply(w, "create", 201)
    /\ UNCHANGED <<now, ticks, sessions, agents>>
    /\ UNCHANGED <<hubVars, proxyVars, reapVars, leafVars>>

\* ------------------------------------------------------------ handleNotify
\* s.store.GetSession(id); a session the store does not hold is made up on
\* the spot (no pane), a known one gets its node name backfilled.
NotifyGet(w) ==
    /\ Accepting(w)
    /\ \E id \in IDs :
        LET got == GetSession(sessions, id)
            sess == IF ~got.present
                    THEN [Absent EXCEPT !.present = TRUE, !.node = NodeOf(id),
                                        !.started = now]
                    ELSE IF got.node = "" THEN [got EXCEPT !.node = NodeOf(id)]
                    ELSE got
        IN /\ req' = [req EXCEPT ![w] = [NoReq EXCEPT !.op = "notify", !.id = id,
                                                      !.node = NodeOf(id)]]
           /\ loc' = [loc EXCEPT ![w].sess = sess, ![w].t = now]
    /\ Goto(w, "notify_store")
    /\ UNCHANGED <<now, ticks, sessions, agents, published>>
    /\ UNCHANGED <<hubVars, proxyVars, reapVars, leafVars>>

\* A notification stored without its time as the session's last activity.
NotifyStore_KeepLast(w) ==
    /\ pc[w] = "notify_store"
    /\ sessions' = CreateSession(sessions, req[w].id, loc[w].sess)
    /\ Goto(w, "notify_publish")
    /\ UNCHANGED <<now, ticks, agents, published, req, loc>>
    /\ UNCHANGED <<hubVars, proxyVars, reapVars, leafVars>>

\* now := time.Now(), read at some point after GetSession returned;
\* sess.LastActivityAt = now; s.store.CreateSession(sess).
NotifyStore(w) ==
    /\ pc[w] = "notify_store"
    /\ \E t \in {loc[w].t, now} :
          sessions' = CreateSession(sessions, req[w].id, [loc[w].sess EXCEPT !.last = t])
    /\ Goto(w, "notify_publish")
    /\ UNCHANGED <<now, ticks, agents, published, req, loc>>
    /\ UNCHANGED <<hubVars, proxyVars, reapVars, leafVars>>

NotifyPublish(w) ==
    /\ pc[w] = "notify_publish"
    /\ published' = Publish(published, "notification", {req[w].id})
    /\ Reply(w, "notify", 200)
    /\ UNCHANGED <<now, ticks, sessions, agents>>
    /\ UNCHANGED <<hubVars, proxyVars, reapVars, leafVars>>

\* ---------------------------------------------------------- handleActivity
\* s.store.GetSession(id); an unknown session is a 200 with nothing done.
ActivityGet(w) ==
    /\ Accepting(w)
    /\ \E id \in IDs :
        LET got == GetSession(sessions, id)
        IN IF got.present
           THEN /\ req' = [req EXCEPT ![w] = [NoReq EXCEPT !.op = "activity", !.id = id]]
                /\ loc' = [loc EXCEPT ![w].sess = got, ![w].t = now]
                /\ Goto(w, "activity_store")
           ELSE Reply(w, "activity", 200)
    /\ UNCHANGED <<now, ticks, sessions, agents, published>>
    /\ UNCHANGED <<hubVars, proxyVars, reapVars, leafVars>>

\* now := time.Now(), read at some point after GetSession returned;
\* sess.LastActivityAt = now; s.store.UpdateSession(sess); an error of it,
\* ErrNotFound too, is a 500.
ActivityStore(w) ==
    /\ pc[w] = "activity_store"
    /\ \E t \in {loc[w].t, now} :
          sessions' = UpdateSession(sessions, req[w].id, [loc[w].sess EXCEPT !.last = t])
    /\ IF sessions[req[w].id].present
       THEN Goto(w, "activity_publish") /\ UNCHANGED <<req, loc>>
       ELSE Reply(w, "activity", 500)
    /\ UNCHANGED <<now, ticks, agents, published>>
    /\ UNCHANGED <<hubVars, proxyVars, reapVars, leafVars>>

ActivityPublish(w) ==
    /\ pc[w] = "activity_publish"
    /\ published' = Publish(published, "activity", {req[w].id})
    /\ Reply(w, "activity", 200)
    /\ UNCHANGED <<now, ticks, sessions, agents>>
    /\ UNCHANGED <<hubVars, proxyVars, reapVars, leafVars>>

\* ----------------------------------------------------- handleDeleteSession
DeleteGet(w) ==
    /\ Accepting(w)
    /\ \E id \in IDs :
        LET got == GetSession(sessions, id)
        IN IF got.present
           THEN /\ req' = [req EXCEPT ![w] = [NoReq EXCEPT !.op = "delete", !.id = id]]
                /\ loc' = [loc EXCEPT ![w].sess = got]
                /\ Goto(w, "delete_store")
           ELSE Reply(w, "delete", 200)
    /\ UNCHANGED <<now, ticks, sessions, agents, published>>
    /\ UNCHANGED <<hubVars, proxyVars, reapVars, leafVars>>

\* sess.StoppedAt = time.Now(); s.store.UpdateSession(sess).
DeleteStore(w) ==
    /\ pc[w] = "delete_store"
    /\ sessions' = UpdateSession(sessions, req[w].id, [loc[w].sess EXCEPT !.stopped = now])
    /\ IF sessions[req[w].id].present
       THEN Goto(w, "delete_publish") /\ UNCHANGED <<req, loc>>
       ELSE Reply(w, "delete", 500)
    /\ UNCHANGED <<now, ticks, agents, published>>
    /\ UNCHANGED <<hubVars, proxyVars, reapVars, leafVars>>

DeletePublish(w) ==
    /\ pc[w] = "delete_publish"
    /\ published' = Publish(published, "session_end", {req[w].id})
    /\ Reply(w, "delete", 200)
    /\ UNCHANGED <<now, ticks, sessions, agents>>
    /\ UNCHANGED <<hubVars, proxyVars, reapVars, leafVars>>

\* ----------------------------------------------------------- handleRespond
\* s.store.GetSession(id); an unknown session is a 404.
RespondGet(w) ==
    /\ Accepting(w)
    /\ \E id \in IDs :
        LET got == GetSession(sessions, id)
        IN IF got.present
           THEN /\ req' = [req EXCEPT ![w] = [NoReq EXCEPT !.op = "respond", !.id = id]]
                /\ loc' = [loc EXCEPT ![w].sess = got]
                /\ Goto(w, "respond_send")
           ELSE Reply(w, "respond", 404)
    /\ UNCHANGED <<now, ticks, sessions, agents, published>>
    /\ UNCHANGED <<hubVars, proxyVars, reapVars, leafVars>>

\* A handler that counts the attempt as activity before it knows the outcome.
RespondSend_TouchFirst(w) ==
    /\ pc[w] = "respond_send"
    /\ sessions' = UpdateSession(sessions, req[w].id, [loc[w].sess EXCEPT !.last = now])
    /\ \/ /\ IsHealthy(agents, loc[w].sess.node, now)
          /\ Goto(w, "respond_store")
          /\ UNCHANGED <<req, loc>>
       \/ Reply(w, "respond", 500)
    /\ UNCHANGED <<now, ticks, agents, published>>
    /\ UNCHANGED <<hubVars, proxyVars, reapVars, leafVars>>

\* agentProxyOps.SendKeys: fails without a healthy agent for the node; with
\* one, the call to the agent succeeds or fails.
RespondSend(w) ==
    /\ pc[w] = "respond_send"
    /\ \/ /\ IsHealthy(agents, loc[w].sess.node, now)
          /\ Goto(w, "respond_store")
          /\ UNCHANGED <<req, loc>>
       \/ Reply(w, "respond", 500)
    /\ UNCHANGED <<now, ticks, sessions, agents, published>>
    /\ UNCHANGED <<hubVars, proxyVars, reapVars, leafVars>>

\* sess.LastActivityAt = time.Now(); s.store.UpdateSession(sess), an error
\* of which is only logged.
RespondStore(w) ==
    /\ pc[w] = "respond_store"
    /\ sessions' = UpdateSession(sessions, req[w].id, [loc[w].sess EXCEPT !.last = now])
    /\ Goto(w, "respond_publish")
    /\ UNCHANGED <<now, ticks, agents, published, req, loc>>
    /\ UNCHANGED <<hubVars, proxyVars, reapVars, leafVars>>

RespondPublish(w) ==
    /\ pc[w] = "respond_publish"
    /\ published' = Publish(published, "response", {req[w].id})
    /\ Reply(w, "respond", 200)
    /\ UNCHANGED <<now, ticks, sessions, agents>>
    /\ UNCHANGED <<hubVars, proxyVars, reapVars, leafVars>>

\* ----------------------------------------------------- handleAgentRegister
\* The agent on `node` ran its pane detection with outcome det and posted
\* its heartbeat; the handler decodes it and calls s.agents.Register.
RegisterAgent(w) ==
    /\ Accepting(w)
    /\ \E node \in Nodes, det \in Detections :
        LET r == DecodeRegister(Marshal(heartbeatPayload(node, det)))
        IN /\ agents' = Register(agents, r.node, now)
           /\ req' = [req EXCEPT ![w] =
                         [NoReq EXCEPT !.op = "register", !.node = r.node,
                                       !.aliveNonNil = r.aliveNonNil,
                                       !.alive = r.alive, !.det = det]]
    /\ Goto(w, "reconcile_list")
    /\ UNCHANGED <<now, ticks, sessions, published, loc>>
    /\ UNCHANGED <<hubVars, proxyVars, reapVars, leafVars>>

\* `if req.AlivePanes != nil`, then reconcileSessions up to its store read:
\* s.store.ListActiveSessionsByNode(node) and the choice of the sessions to
\* stop.  No field, or none to stop, ends the handler.
ReconcileList(w) ==
    /\ pc[w] = "reconcile_list"
    /\ LET toStop == ToStop(sessions, ListActiveSessionsByNode(sessions, req[w].node),
                            req[w].alive)
       IN IF ~req[w].aliveNonNil \/ toStop = {}
          THEN Reply(w, "register", 200)
          ELSE /\ loc' = [loc EXCEPT ![w].ids = toStop]
               /\ Goto(w, "reconcile_stop")
               /\ UNCHANGED req
    /\ UNCHANGED <<now, ticks, sessions, agents, published>>
    /\ UNCHANGED <<hubVars, proxyVars, reapVars, leafVars>>

\* A stop that stamps every session of the list, stopped before or not.
ReconcileStop_Restamp(w) ==
    /\ pc[w] = "reconcile_stop"
    /\ sessions' = [id \in IDs |->
                       IF id \in loc[w].ids /\ sessions[id].present
                       THEN [sessions[id] EXCEPT !.stopped = formatTime(now)]
                       ELSE sessions[id]]
    /\ Goto(w, "reconcile_publish")
    /\ UNCHANGED <<now, ticks, agents, published, req, loc>>
    /\ UNCHANGED <<hubVars, proxyVars, reapVars, leafVars>>

\* s.store.StopSessions(toStop).
ReconcileStop(w) ==
    /\ pc[w] = "reconcile_stop"
    /\ sessions' = StopSessions(sessions, loc[w].ids, now)
    /\ Goto(w, "reconcile_publish")
    /\ UNCHANGED <<now, ticks, agents, published, req, loc>>
    /\ UNCHANGED <<hubVars, proxyVars, reapVars, leafVars>>

\* A reconciliation that ends without telling anyone.
ReconcilePublish_Silent(w) ==
    /\ pc[w] = "reconcile_publish"
    /\ Reply(w, "register", 200)
    /\ UNCHANGED <<now, ticks, sessions, agents, published>>
    /\ UNCHANGED <<hubVars, proxyVars, reapVars, leafVars>>

ReconcilePublish(w) ==
    /\ pc[w] = "reconcile_publish"
    /\ published' = Publish(published, "session_end", loc[w].ids)
    /\ Reply(w, "register", 200)
    /\ UNCHANGED <<now, ticks, sessions, agents>>
    /\ UNCHANGED <<hubVars, proxyVars, reapVars, leafVars>>

\* ------------------------------------------------------------ reapSessions
Reap ==
    /\ sessions' = ReapStoppedSessions(sessions, now)
    /\ UNCHANGED <<now, ticks, agents, published, pc, req, loc>>
    /\ UNCHANGED <<hubVars, proxyVars, reapVars, leafVars>>

\* ------------------------------------------------------------ the clock
\* The clock advances by a fraction of a second, by the staleness window, or
\* by a fraction of a second or a second more than the time a stopped
\* session is kept.
TickSteps == {1, agentStaleTimeout * TicksPerSecond,
              stoppedSessionTTL * TicksPerSecond + 1,
              (stoppedSessionTTL + 1) * TicksPerSecond}

Tick ==
    /\ ticks < MaxTicks
    /\ \E d \in TickSteps : now' = now + d
    /\ ticks' = ticks + 1
    /\ UNCHANGED <<sessions, agents, published, pc, req, loc>>
    /\ UNCHANGED <<hubVars, proxyVars, reapVars, leafVars>>

LifeNext ==
    \/ \E w \in Workers : CreateStore(w)
    \/ \E w \in Workers : CreateDedup(w)
    \/ \E w \in Workers : CreatePublish(w)
    \/ \E w \in Workers : NotifyGet(w)
    \/ \E w \in Workers : NotifyStore(w)
    \/ \E w \in Workers : NotifyPublish(w)
    \/ \E w \in Workers : ActivityGet(w)
    \/ \E w \in Workers : ActivityStore(w)
    \/ \E w \in Workers : ActivityPublish(w)
    \/ \E w \in Workers : DeleteGet(w)
    \/ \E w \in Workers : DeleteStore(w)
    \/ \E w \in Workers : DeletePublish(w)
    \/ \E w \in Workers : RespondGet(w)
    \/ \E w \in Workers : RespondSend(w)
    \/ \E w \in Workers : RespondStore(w)
    \/ \E w \in Workers : RespondPublish(w)
    \/ \E w \in Workers : RegisterAgent(w)
    \/ \E w \in Workers : ReconcileList(w)
    \/ \E w \in Workers : ReconcileStop(w)
    \/ \E w \in Workers : ReconcilePublish(w)
    \/ Reap
    \/ Tick


\* ================================== the daemon that pushes notifications
\* The server whose handlers ask tmux themselves whether the pane is focused
\* and send the push notifications (paneFocused, sendNotification,
\* sendStopNotification); it has no node names, no dedup and no event hub.
MinSessionAge == 120            \* seconds (the --min-session-age default)

\* What `tmux display-message -t pane -p "#{pane_active} #{window_active}
\* #{session_attached}"` gives: an error, or its output split into fields.
TmuxError == <<"error">>
TmuxAnswers == {TmuxError, <<>>, <<"1", "1", "1">>, <<"1", "1", "2">>,
                <<"1", "1", "0">>, <<"0", "1", "1">>, <<"1", "0", "1">>,
                <<"1", "1">>}

\* A focus check that takes a failed query for a focused pane.
tmuxPaneFocused_ErrorFocused(pane, out) ==
    IF pane = NoPane THEN FALSE
    ELSE IF out = TmuxError THEN TRUE
    ELSE IF Len(out) # 3 THEN FALSE
    ELSE out[1] = "1" /\ out[2] = "1" /\ out[3] # "0"

\* tmuxPaneFocused: false without a pane, on an error, or on an output that
\* does not have three fields.
tmuxPaneFocused(pane, out) ==
    IF pane = NoPane THEN FALSE
    ELSE IF out = TmuxError THEN FALSE
    ELSE IF Len(out) # 3 THEN FALSE
    ELSE out[1] = "1" /\ out[2] = "1" /\ out[3] # "0"

\* int(d.Seconds()) and int(d.Minutes()) of a duration in ticks: the
\* conversion to int drops the fraction.
Seconds(d) == IF d >= 0 THEN d \div TicksPerSecond ELSE -((-d) \div TicksPerSecond)
Minutes(d) == IF d >= 0 THEN d \div (60 * TicksPerSecond)
              ELSE -((-d) \div (60 * TicksPerSecond))

\* The reference point of a session's duration.
activityRef(sess) == IF IsZero(sess.last) THEN sess.started ELSE sess.last

\* s.store.GetSession(id); a session the store does not hold is made up on
\* the spot (no pane), a stopped one is revived.
PushNotifyGet(w) ==
    /\ Accepting(w)
    /\ \E id \in IDs :
        LET got == GetSession(sessions, id)
            sess == IF ~got.present
                    THEN [Absent EXCEPT !.present = TRUE, !.started = now]
                    ELSE [got EXCEPT !.stopped = 0]
        IN /\ req' = [req EXCEPT ![w] = [NoReq EXCEPT !.op = "notify", !.id = id]]
           /\ loc' = [loc EXCEPT ![w].sess = sess, ![w].t = now]
    /\ Goto(w, "push_notify_store")
    /\ UNCHANGED <<now, ticks, sessions, agents, published>>
    /\ UNCHANGED <<hubVars, proxyVars, reapVars, leafVars>>

\* now := time.Now(), read at some point after GetSession returned;
\* sess.LastActivityAt = now; s.store.CreateSession(sess).
PushNotifyStore(w) ==
    /\ pc[w] = "push_notify_store"
    /\ \E t \in {loc[w].t, now} :
          sessions' = CreateSession(sessions, req[w].id, [loc[w].sess EXCEPT !.last = t])
    /\ Goto(w, "push_notify_focus")
    /\ UNCHANGED <<now, ticks, agents, published, req, loc>>
    /\ UNCHANGED <<hubVars, proxyVars, reapVars, leafVars>>

\* s.paneFocused(sess.TmuxPane): tmux is asked, unless there is no pane.
PushNotifyFocus(w) ==
    /\ pc[w] = "push_notify_focus"
    /\ \E out \in IF loc[w].sess.pane = NoPane THEN {<<>>} ELSE TmuxAnswers :
          loc' = [loc EXCEPT ![w].tmux = out]
    /\ Goto(w, "push_notify_send")
    /\ UNCHANGED <<now, ticks, sessions, agents, published, req>>
    /\ UNCHANGED <<hubVars, proxyVars, reapVars, leafVars>>

\* Suppressed when the pane is focused, else s.sendNotification.
PushNotifySend(w) ==
    /\ pc[w] = "push_notify_send"
    /\ ntfy' = IF tmuxPaneFocused(loc[w].sess.pane, loc[w].tmux)
               THEN ntfy
               ELSE Append(ntfy, [kind |-> "notify", id |-> req[w].id, mins |-> 0])
    /\ Reply(w, "notify", 200)
    /\ UNCHANGED <<now, ticks, sessions, agents, published>>
    /\ UNCHANGED <<hubVars, proxyVars, reapVars, discVars, transVars, searchVars, fleetVars>>

\* s.store.GetSession(id); an unknown session is a 200 with nothing done.
PushDeleteGet(w) ==
    /\ Accepting(w)
    /\ \E id \in IDs :
        LET got == GetSession(sessions, id)
        IN IF got.present
           THEN /\ req' = [req EXCEPT ![w] = [NoReq EXCEPT !.op = "delete", !.id = id]]
                /\ loc' = [loc EXCEPT ![w].sess = got]
                /\ Goto(w, "push_delete_store")
           ELSE Reply(w, "delete", 200)
    /\ UNCHANGED <<now, ticks, sessions, agents, published>>
    /\ UNCHANGED <<hubVars, proxyVars, reapVars, leafVars>>

\* A handler that measures the session from its start.
PushDeleteStore_FromStart(w) ==
    /\ pc[w] = "push_delete_store"
    /\ sessions' = UpdateSession(sessions, req[w].id, [loc[w].sess EXCEPT !.stopped = now])
    /\ IF ~sessions[req[w].id].present
       THEN Reply(w, "delete", 500)
       ELSE IF Seconds(now - loc[w].sess.started) >= MinSessionAge
       THEN /\ loc' = [loc EXCEPT ![w].sess.stopped = now, ![w].t = now]
            /\ Goto(w, "push_delete_focus")
            /\ UNCHANGED req
       ELSE Reply(w, "delete", 200)
    /\ UNCHANGED <<now, ticks, agents, published>>
    /\ UNCHANGED <<hubVars, proxyVars, reapVars, leafVars>>

\* now := time.Now(); sess.StoppedAt = now; s.store.UpdateSession(sess);
\* elapsed := now.Sub(activityRef); a session younger than MinSessionAge is
\* done here.
PushDeleteStore(w) ==
    /\ pc[w] = "push_delete_store"
    /\ sessions' = UpdateSession(sessions, req[w].id, [loc[w].sess EXCEPT !.stopped = now])
    /\ IF ~sessions[req[w].id].present
       THEN Reply(w, "delete", 500)
       ELSE IF Seconds(now - activityRef(loc[w].sess)) >= MinSessionAge
       THEN /\ loc' = [loc EXCEPT ![w].sess.stopped = now, ![w].t = now]
            /\ Goto(w, "push_delete_focus")
            /\ UNCHANGED req
       ELSE Reply(w, "delete", 200)
    /\ UNCHANGED <<now, ticks, agents, published>>
    /\ UNCHANGED <<hubVars, proxyVars, reapVars, leafVars>>

\* s.paneFocused(sess.TmuxPane): tmux is asked, unless there is no pane.
PushDeleteFocus(w) ==
    /\ pc[w] = "push_delete_focus"
    /\ \E out \in IF loc[w].sess.pane = NoPane THEN {<<>>} ELSE TmuxAnswers :
          loc' = [loc EXCEPT ![w].tmux = out]
    /\ Goto(w, "push_delete_send")
    /\ UNCHANGED <<now, ticks, sessions, agents, published, req>>
    /\ UNCHANGED <<hubVars, proxyVars, reapVars, leafVars>>

\* Suppressed when the pane is focused, else s.sendStopNotification with
\* mins := int(elapsed.Minutes()).
PushDeleteSend(w) ==
    /\ pc[w] = "push_delete_send"
    /\ ntfy' = IF tmuxPaneFocused(loc[w].sess.pane, loc[w].tmux)
               THEN ntfy
               ELSE Append(ntfy, [kind |-> "stop", id |-> req[w].id,
                                  mins |-> Minutes(loc[w].t - activityRef(loc[w].sess))])
    /\ Reply(w, "delete", 200)
    /\ UNCHANGED <<now, ticks, sessions, agents, published>>
    /\ UNCHANGED <<hubVars, proxyVars, reapVars, discVars, transVars, searchVars, fleetVars>>

\* The daemon has been up for a while.  Its table: a session whose last
\* activity is MinSessionAge old to the second, one a second younger, one
\* from before last_activity_at was kept, without a pane, and a stopped one.
PushStart == (5 * MinSessionAge) * TicksPerSecond

PushTables ==
    { [id \in IDs |->
          CASE id = "s1" -> [ActiveRow("", "p0", StartTime)
                                EXCEPT !.last = PushStart - MinSessionAge * TicksPerSecond]
            [] id = "s2" -> [ActiveRow("", "p1", StartTime)
                                EXCEPT !.last = PushStart - (MinSessionAge - 1) * TicksPerSecond]
            [] id = "s3" -> [ActiveRow("", NoPane, StartTime) EXCEPT !.last = 0]
            [] OTHER -> [ActiveRow("", "p2", StartTime) EXCEPT !.stopped = 2 * StartTime] ] }


\* ================================================ the agent's pane discovery
\* The process IDs and command names of a `ps -eo pid=,ppid=,comm=` output,
\* and the panes of a `tmux list-panes -a` output.  PID 1 is the parent of
\* the processes that are nobody's child here.
Pids == {100, 200, 300, 400}
PidOrder == <<100, 200, 300, 400>>
InitPid == 1
Comms == {"bash", "claude", ".claude-unwrapp"}
PaneIDs == {"p0", "p1"}

\* The chain of parents of every process ends at PID 1.
RECURSIVE ReachesInit(_, _, _)
ReachesInit(tbl, p, fuel) ==
    IF tbl[p].ppid = InitPid THEN TRUE
    ELSE IF fuel = 0 THEN FALSE
    ELSE ReachesInit(tbl, tbl[p].ppid, fuel - 1)

\* The process tables ps can print: every process has one parent, and no
\* process is its own ancestor.
ProcTables ==
    { tbl \in [Pids -> [ppid : Pids \cup {InitPid}, comm : Comms]] :
        \A p \in Pids : ReachesInit(tbl, p, Cardinality(Pids)) }

\* The pane lists tmux can print: p0 is there, p1 may be.
PaneLists ==
    UNION { [ps -> Pids] : ps \in {{"p0"}, PaneIDs} }

\* children[pid], in the order of the ps output.
children(tbl, pid) == SelectSeq(PidOrder, LAMBDA q : tbl[q].ppid = pid)

\* The loop of hasClaudeDescendant: take the head of the queue, return true
\* when its command name is "claude", else append its children.
RECURSIVE bfs(_, _)
bfs(tbl, pending) ==
    IF pending = <<>> THEN FALSE
    ELSE IF tbl[Head(pending)].comm = "claude" THEN TRUE
    ELSE bfs(tbl, Tail(pending) \o children(tbl, Head(pending)))

hasClaudeDescendant(paneShellPID, tbl) == bfs(tbl, children(tbl, paneShellPID))

findClaudePanes(pn, tbl) ==
    { paneID \in DOMAIN pn : hasClaudeDescendant(pn[paneID], tbl) }

\* exec.Command("tmux", "list-panes", ...).Output() and parseTmuxPanes.
ListPanes ==
    /\ dpc = "idle"
    /\ panes' \in PaneLists
    /\ dpc' = "ps"
    /\ UNCHANGED <<procs, result>>
    /\ UNCHANGED <<lifeVars, hubVars, proxyVars, reapVars, pushVars, transVars, searchVars, fleetVars>>

\* exec.Command("ps", "-eo", "pid=,ppid=,comm=").Output() and parseProcesses.
ListProcesses ==
    /\ dpc = "ps"
    /\ procs' \in ProcTables
    /\ dpc' = "find"
    /\ UNCHANGED <<panes, result>>
    /\ UNCHANGED <<lifeVars, hubVars, proxyVars, reapVars, pushVars, transVars, searchVars, fleetVars>>

\* findClaudePanes(string(tmuxOut), string(psOut)).
FindClaudePanes ==
    /\ dpc = "find"
    /\ result' = findClaudePanes(panes, procs)
    /\ dpc' = "found"
    /\ UNCHANGED <<panes, procs>>
    /\ UNCHANGED <<lifeVars, hubVars, proxyVars, reapVars, pushVars, transVars, searchVars, fleetVars>>

\* ------------------------------------- hasClaudeDescendant, step by step
\* The process lists parseProcesses can return: it keeps every line with two
\* numbers and a name, so a process may be listed as its own parent, or as a
\* child of one of its descendants.
SnapshotTables == [Pids -> [ppid : Pids \cup {InitPid}, comm : {"bash", "claude"}]]

MaxQueue == 6               \* entries of the queue the search is followed up to

\* children and commByPid are built, and queue := children[paneShellPID].
SearchStart ==
    /\ bpc = "idle"
    /\ procs' \in SnapshotTables
    /\ shellPID' \in Pids
    /\ bfsQueue' = children(procs', shellPID')
    /\ bpc' = "test"
    /\ UNCHANGED <<found, panes, result, dpc>>
    /\ UNCHANGED <<lifeVars, hubVars, proxyVars, reapVars, pushVars, transVars, fleetVars>>

\* The test of `for len(queue) > 0`, and `return false` after the loop.
SearchTest ==
    /\ bpc = "test"
    /\ IF bfsQueue = <<>>
       THEN found' = FALSE /\ bpc' = "returned"
       ELSE bpc' = "body" /\ UNCHANGED found
    /\ UNCHANGED <<shellPID, bfsQueue, discVars>>
    /\ UNCHANGED <<lifeVars, hubVars, proxyVars, reapVars, pushVars, transVars, fleetVars>>

\* The body of the loop: pop the head, return true when its command name is
\* "claude", else append its children.
SearchBody ==
    /\ bpc = "body"
    /\ Len(bfsQueue) <= MaxQueue
    /\ LET pid == Head(bfsQueue)
       IN IF procs[pid].comm = "claude"
          THEN /\ found' = TRUE
               /\ bpc' = "returned"
               /\ bfsQueue' = Tail(bfsQueue)
          ELSE /\ bfsQueue' = Tail(bfsQueue) \o children(procs, pid)
               /\ bpc' = "test"
               /\ UNCHANGED found
    /\ UNCHANGED <<shellPID, discVars>>
    /\ UNCHANGED <<lifeVars, hubVars, proxyVars, reapVars, pushVars, transVars, fleetVars>>

\* =================================================== the transcript reader
\* A text is a sequence of pieces; a system reminder span is one piece, the
\* error marker of a tool result is one piece.
MaxLines == 3               \* entries of a log
ErrorMarker == "<tool_use_error>"
ErrorSuffix == " (error)"
Reminder == "<system-reminder>..</system-reminder>"

\* systemReminderRe.ReplaceAllString(s, "") and TrimSpace.
stripSystemReminders(text) == SelectSeq(text, LAMBDA piece : piece # Reminder)

\* The content of a tool_result block: nothing, a string, or an array of
\* text parts.
NilContent == [shape |-> "nil", str |-> <<>>, parts |-> <<>>]
StringContent(text) == [shape |-> "string", str |-> text, parts |-> <<>>]
ArrayContent(parts) == [shape |-> "array", str |-> <<>>, parts |-> parts]

\* strings.Join(parts, "\n").
RECURSIVE Join(_)
Join(parts) ==
    IF parts = <<>> THEN <<>>
    ELSE IF Len(parts) = 1 THEN parts[1]
    ELSE parts[1] \o <<"\n">> \o Join(Tail(parts))

extractResultText(content) ==
    CASE content.shape = "string" -> content.str
      [] content.shape = "array" -> Join(content.parts)
      [] OTHER -> <<>>

\* strings.Contains(s, piece).
Contains(text, piece) == \E i \in 1..Len(text) : text[i] = piece

\* contentBlock values.
TextBlock(text) ==
    [type |-> "text", id |-> "", text |-> text, name |-> "", input |-> "",
     tool_use_id |-> "", content |-> NilContent]
ThinkingBlock ==
    [type |-> "thinking", id |-> "", text |-> <<>>, name |-> "", input |-> "",
     tool_use_id |-> "", content |-> NilContent]
ToolUseBlock(id, name, input) ==
    [type |-> "tool_use", id |-> id, text |-> <<>>, name |-> name, input |-> input,
     tool_use_id |-> "", content |-> NilContent]
ToolResultBlock(id, content) ==
    [type |-> "tool_result", id |-> "", text |-> <<>>, name |-> "", input |-> "",
     tool_use_id |-> id, content |-> content]

\* jsonlEntry values with their messageEnvelope; a line that is not JSON.
Entry(type, isMeta, model, shape, str, blocks) ==
    [valid |-> TRUE, type |-> type, isMeta |-> isMeta, role |-> type,
     model |-> model, isApiErrorMessage |-> FALSE,
     shape |-> shape, str |-> str, blocks |-> blocks]
Garbage ==
    [valid |-> FALSE, type |-> "", isMeta |-> FALSE, role |-> "",
     model |-> "", isApiErrorMessage |-> FALSE,
     shape |-> "", str |-> <<>>, blocks |-> <<>>]
AssistantEntry(isMeta, blocks) == Entry("assistant", isMeta, "claude", "array", <<>>, blocks)
UserEntry(isMeta, blocks) == Entry("user", isMeta, "", "array", <<>>, blocks)
UserString(text) == Entry("user", FALSE, "", "string", text, <<>>)

\* The blocks of the logs read: a plan written to a file, the plan-exit
\* tool, results of the write.
WritePlan == ToolUseBlock("t1", "Write", "/tmp/plan.md")
ExitPlan == ToolUseBlock("t2", "ExitPlanMode", "")
Say == TextBlock(<<"hi">>)
OkResult == ToolResultBlock("t1", StringContent(<<"ok">>))
ErrResult == ToolResultBlock("t1", StringContent(<<ErrorMarker, "failed">>))
ErrParts == ToolResultBlock("t1", ArrayContent(<< <<"out">>, <<ErrorMarker, "denied">> >>))
Unlinked == ToolResultBlock("", StringContent(<<ErrorMarker>>))

Entries ==
    { AssistantEntry(FALSE, <<Say, WritePlan>>), AssistantEntry(FALSE, <<WritePlan>>),
      AssistantEntry(FALSE, <<ExitPlan>>), AssistantEntry(FALSE, <<WritePlan, ExitPlan>>),
      AssistantEntry(TRUE, <<ExitPlan>>), AssistantEntry(FALSE, <<ThinkingBlock>>),
      Entry("assistant", FALSE, "<synthetic>", "array", <<>>, <<Say>>),
      UserEntry(TRUE, <<OkResult>>), UserEntry(TRUE, <<ErrResult>>),
      UserEntry(FALSE, <<OkResult>>), UserEntry(FALSE, <<ErrResult>>),
      UserEntry(FALSE, <<ErrParts>>), UserEntry(FALSE, <<Say, ErrResult>>),
      UserEntry(FALSE, <<Unlinked>>),
      UserString(<<"hi">>), UserString(<<Reminder>>),
      Entry("system", FALSE, "", "string", <<"hi">>, <<>>),
      Garbage }

Logs == UNION { [1..n -> Entries] : n \in 0..MaxLines }

\* The tool result map.
ToolIDs == {"t1", "t2"}
NoResult == [ok |-> FALSE, text |-> <<>>]
NoResults == [id \in ToolIDs |-> NoResult]
Lookup(results, id) == IF id \in DOMAIN results THEN results[id] ELSE NoResult

\* Block and Message values.
TextOut(text) ==
    [type |-> "text", text |-> text, summary |-> <<>>, input |-> "",
     toolUseID |-> "", toolInput |-> ""]
NoMessage == [ok |-> FALSE, role |-> "", blocks |-> <<>>]
Message(role, blocks) == [ok |-> TRUE, role |-> role, blocks |-> blocks]

toolsWithDisplayableInput == {"AskUserQuestion"}

parseUserEntry(entry) ==
    IF entry.role # "user" THEN NoMessage
    ELSE IF entry.shape = "string"
    THEN LET strContent == stripSystemReminders(entry.str)
         IN IF strContent = <<>> THEN NoMessage
            ELSE Message("user", <<TextOut(strContent)>>)
    ELSE IF entry.shape # "array" THEN NoMessage
    ELSE LET shown == SelectSeq(entry.blocks, LAMBDA b :
                         b.type = "text" /\ stripSystemReminders(b.text) # <<>>)
             displayBlocks ==
                 [i \in 1..Len(shown) |-> TextOut(stripSystemReminders(shown[i].text))]
         IN IF displayBlocks = <<>> THEN NoMessage
            ELSE Message("user", displayBlocks)

\* The tool_use case of parseAssistantEntry.
ToolOut(b, hasExitPlanMode) ==
    [type |-> "tool_use", text |-> <<b.name>>, summary |-> <<>>,
     input |-> IF b.name \in toolsWithDisplayableInput /\ b.input # "" THEN b.input
               ELSE IF hasExitPlanMode /\ b.name = "Write" /\ b.input # "" THEN b.input
               ELSE "",
     toolUseID |-> b.id, toolInput |-> b.input]

parseAssistantEntry(entry) ==
    IF entry.role # "assistant" THEN NoMessage
    ELSE IF entry.isApiErrorMessage \/ entry.model = "<synthetic>" THEN NoMessage
    ELSE IF entry.shape # "array" THEN NoMessage
    ELSE LET hasExitPlanMode ==
                 \E i \in 1..Len(entry.blocks) :
                     entry.blocks[i].type = "tool_use" /\ entry.blocks[i].name = "ExitPlanMode"
             shown == SelectSeq(entry.blocks, LAMBDA b :
                         \/ b.type = "text" /\ stripSystemReminders(b.text) # <<>>
                         \/ b.type = "tool_use")
             displayBlocks ==
                 [i \in 1..Len(shown) |->
                     IF shown[i].type = "text"
                     THEN TextOut(stripSystemReminders(shown[i].text))
                     ELSE ToolOut(shown[i], hasExitPlanMode)]
         IN IF displayBlocks = <<>> THEN NoMessage
            ELSE Message("assistant", displayBlocks)

parseLine(line) ==
    IF ~line.valid THEN NoMessage
    ELSE IF line.isMeta THEN NoMessage
    ELSE CASE line.type = "user" -> parseUserEntry(line)
           [] line.type = "assistant" -> parseAssistantEntry(line)
           [] OTHER -> NoMessage

\* The loop of collectToolResults over the blocks of one entry.
RECURSIVE putResults(_, _)
putResults(blocks, results) ==
    IF blocks = <<>> THEN results
    ELSE LET b == Head(blocks)
         IN putResults(Tail(blocks),
               IF b.type = "tool_result" /\ b.tool_use_id # ""
               THEN [id \in DOMAIN results \cup {b.tool_use_id} |->
                        IF id = b.tool_use_id
                        THEN [ok |-> TRUE, text |-> extractResultText(b.content)]
                        ELSE results[id]]
               ELSE results)

\* A collection that leaves out the entries that are not displayed.
collectToolResults_DisplayedOnly(line, results) ==
    IF ~line.valid \/ line.isMeta THEN results
    ELSE IF line.type # "user" \/ line.role # "user" THEN results
    ELSE IF line.shape # "array" THEN results
    ELSE putResults(line.blocks, results)

collectToolResults(line, results) ==
    IF ~line.valid THEN results
    ELSE IF line.type # "user" \/ line.role # "user" THEN results
    ELSE IF line.shape # "array" THEN results
    ELSE putResults(line.blocks, results)

\* The name and what the tool works on, or the name alone.
summarizeTool(name, input) ==
    IF name \in {"Read", "Bash", "Edit", "Write"} /\ input # ""
    THEN <<name, input>>
    ELSE <<name>>

attachSummaries(msgs, results) ==
    [i \in 1..Len(msgs) |->
        [msgs[i] EXCEPT !.blocks =
            [j \in 1..Len(msgs[i].blocks) |->
                LET blk == msgs[i].blocks[j]
                    summary == summarizeTool(blk.text[1], blk.toolInput)
                    res == Lookup(results, blk.toolUseID)
                IN IF blk.type # "tool_use" THEN blk
                   ELSE [blk EXCEPT !.summary =
                            IF res.ok /\ Contains(res.text, ErrorMarker)
                            THEN summary \o <<ErrorSuffix>>
                            ELSE summary]]]]

\* os.Open(path): the log as it is now.
ReadOpen ==
    /\ tpc = "idle"
    /\ lines' \in Logs
    /\ toolResults' = NoResults
    /\ tpc' = "scan"
    /\ UNCHANGED <<nread, messages>>
    /\ UNCHANGED <<lifeVars, hubVars, proxyVars, reapVars, pushVars, discVars, searchVars, fleetVars>>

\* One turn of the scanner loop: collectToolResults, parseLine, append.
ReadScan ==
    /\ tpc = "scan"
    /\ nread < Len(lines)
    /\ LET line == lines[nread + 1]
           msg == parseLine(line)
       IN /\ toolResults' = collectToolResults(line, toolResults)
          /\ messages' = IF msg.ok THEN Append(messages, msg) ELSE messages
    /\ nread' = nread + 1
    /\ UNCHANGED <<lines, tpc>>
    /\ UNCHANGED <<lifeVars, hubVars, proxyVars, reapVars, pushVars, discVars, searchVars, fleetVars>>

\* After the last line: attachSummaries and return.
ReadFinish ==
    /\ tpc = "scan"
    /\ nread = Len(lines)
    /\ messages' = attachSummaries(messages, toolResults)
    /\ tpc' = "done"
    /\ UNCHANGED <<lines, nread, toolResults>>
    /\ UNCHANGED <<lifeVars, hubVars, proxyVars, reapVars, pushVars, discVars, searchVars, fleetVars>>

\* ======================================================== the event hub
\* Subscribe's `make(chan Event, 16)`
QueueCap == 16

globalKey == ""
Keys == {globalKey, "s1", "s2"}
Chans == {"c1", "c2"}
Publishers == {"h1", "h2"}

\* 1..n as a sequence
Upto(n) == [i \in 1..n |-> i]

NoRem == [sess |-> {}, glob |-> {}]

\* A ring buffer: a full buffer drops its oldest event.
TrySend_DropOldest(q, evt) ==
    IF Len(q) < QueueCap THEN Append(q, evt) ELSE Append(Tail(q), evt)

\* A stack: the newest event is read first.
TrySend_Prepend(q, evt) == IF Len(q) < QueueCap THEN <<evt>> \o q ELSE q

\* `select { case ch <- evt: default: }`: a full buffer drops the event.
TrySend(q, evt) == IF Len(q) < QueueCap THEN Append(q, evt) ELSE q

\* The hub with no subscriber, and no call in progress.
HubIdle(n) ==
    /\ mu = "free"
    /\ subs = [k \in Keys |-> {}]
    /\ queue = [c \in Chans |-> <<>>]
    /\ spc = [c \in Chans |-> "idle"]
    /\ skey = [c \in Chans |-> globalKey]
    /\ unsubs = [c \in Chans |-> 0]
    /\ recvd = [c \in Chans |-> <<>>]
    /\ offered = [c \in Chans |-> <<>>]
    /\ hpc = [p \in Publishers |-> "idle"]
    /\ hkey = [p \in Publishers |-> globalKey]
    /\ hevt = [p \in Publishers |-> 0]
    /\ hrem = [p \in Publishers |-> NoRem]
    /\ hseq = 0
    /\ hmax = n
    /\ hdone = {}
    /\ hbefore = [e \in 1..n |-> {}]
    /\ hsess = [e \in 1..n |-> globalKey]

\* The hub after n Publish calls for session s1, made one after the other
\* while c1 was subscribed to s1 and nothing was read from it; m calls to go.
HubFilled(n, m) ==
    /\ mu = "free"
    /\ subs = [k \in Keys |-> IF k = "s1" THEN {"c1"} ELSE {}]
    /\ queue = [c \in Chans |-> IF c = "c1" THEN Upto(n) ELSE <<>>]
    /\ spc = [c \in Chans |-> IF c = "c1" THEN "subscribed" ELSE "idle"]
    /\ skey = [c \in Chans |-> IF c = "c1" THEN "s1" ELSE globalKey]
    /\ unsubs = [c \in Chans |-> 0]
    /\ recvd = [c \in Chans |-> <<>>]
    /\ offered = [c \in Chans |-> IF c = "c1" THEN Upto(n) ELSE <<>>]
    /\ hpc = [p \in Publishers |-> "idle"]
    /\ hkey = [p \in Publishers |-> globalKey]
    /\ hevt = [p \in Publishers |-> 0]
    /\ hrem = [p \in Publishers |-> NoRem]
    /\ hseq = n
    /\ hmax = n + m
    /\ hdone = 1..n
    /\ hbefore = [e \in 1..(n + m) |-> IF e <= n THEN 1..(e - 1) ELSE {}]
    /\ hsess = [e \in 1..(n + m) |-> IF e <= n THEN "s1" ELSE globalKey]

\* ---------------------------------------------------------------- Subscribe
\* Subscribe(sessionID) is called: the channel is made, then h.mu.Lock(),
\* which waits for the lock to be free.
SubscribeLock(c, SK) ==
    /\ spc[c] = "idle"
    /\ mu = "free"
    /\ mu' = c
    /\ \E k \in SK : skey' = [skey EXCEPT ![c] = k]
    /\ spc' = [spc EXCEPT ![c] = "sub_cs"]
    /\ UNCHANGED <<subs, queue, unsubs, recvd, offered,
                   hpc, hkey, hevt, hrem, hseq, hmax, hdone, hbefore, hsess>>
    /\ UNCHANGED <<lifeVars, proxyVars, reapVars, leafVars>>

\* h.subs[sessionID][ch] = struct{}{}; h.mu.Unlock()
SubscribeAdd(c) ==
    /\ spc[c] = "sub_cs"
    /\ subs' = [subs EXCEPT ![skey[c]] = @ \cup {c}]
    /\ mu' = "free"
    /\ spc' = [spc EXCEPT ![c] = "subscribed"]
    /\ UNCHANGED <<queue, skey, unsubs, recvd, offered,
                   hpc, hkey, hevt, hrem, hseq, hmax, hdone, hbefore, hsess>>
    /\ UNCHANGED <<lifeVars, proxyVars, reapVars, leafVars>>

\* -------------------------------------------------------------- unsubscribe
\* The unsubscribe function is called, the first time or once more:
\* h.mu.Lock(), which waits for the lock to be free.
UnsubscribeLock(c, U) ==
    /\ unsubs[c] < U
    /\ spc[c] \in {"subscribed", "unsubscribed"}
    /\ mu = "free"
    /\ mu' = c
    /\ spc' = [spc EXCEPT ![c] = "unsub_cs"]
    /\ UNCHANGED <<subs, queue, skey, unsubs, recvd, offered,
                   hpc, hkey, hevt, hrem, hseq, hmax, hdone, hbefore, hsess>>
    /\ UNCHANGED <<lifeVars, proxyVars, reapVars, leafVars>>

\* An unsubscribe that drops the key with every channel under it.
UnsubscribeDelete_DropKey(c) ==
    /\ spc[c] = "unsub_cs"
    /\ subs' = [subs EXCEPT ![skey[c]] = {}]
    /\ mu' = "free"
    /\ spc' = [spc EXCEPT ![c] = "unsubscribed"]
    /\ unsubs' = [unsubs EXCEPT ![c] = @ + 1]
    /\ UNCHANGED <<queue, skey, recvd, offered,
                   hpc, hkey, hevt, hrem, hseq, hmax, hdone, hbefore, hsess>>
    /\ UNCHANGED <<lifeVars, proxyVars, reapVars, leafVars>>

\* delete(h.subs[sessionID], ch), the emptied key dropped; h.mu.Unlock()
UnsubscribeDelete(c) ==
    /\ spc[c] = "unsub_cs"
    /\ subs' = [subs EXCEPT ![skey[c]] = @ \ {c}]
    /\ mu' = "free"
    /\ spc' = [spc EXCEPT ![c] = "unsubscribed"]
    /\ unsubs' = [unsubs EXCEPT ![c] = @ + 1]
    /\ UNCHANGED <<queue, skey, recvd, offered,
                   hpc, hkey, hevt, hrem, hseq, hmax, hdone, hbefore, hsess>>
    /\ UNCHANGED <<lifeVars, proxyVars, reapVars, leafVars>>

\* ------------------------------------------------- handleSSE, handleGlobalSSE
\* The client of the event stream goes away: r.Context() is cancelled.
SSEDisconnect(c) ==
    /\ spc[c] = "subscribed"
    /\ spc' = [spc EXCEPT ![c] = "cancelled"]
    /\ UNCHANGED <<mu, subs, queue, skey, unsubs, recvd, offered,
                   hpc, hkey, hevt, hrem, hseq, hmax, hdone, hbefore, hsess>>
    /\ UNCHANGED <<lifeVars, proxyVars, reapVars, leafVars>>

\* A handler that returns without its deferred unsub().
SSEReturn_NoUnsub(c) ==
    /\ spc[c] = "cancelled"
    /\ spc' = [spc EXCEPT ![c] = "unsubscribed"]
    /\ unsubs' = [unsubs EXCEPT ![c] = @ + 1]
    /\ UNCHANGED <<mu, subs, queue, skey, recvd, offered,
                   hpc, hkey, hevt, hrem, hseq, hmax, hdone, hbefore, hsess>>
    /\ UNCHANGED <<lifeVars, proxyVars, reapVars, leafVars>>

\* The handler's select takes `<-ctx.Done()` and returns; the deferred
\* unsub() runs: h.mu.Lock(), which waits for the lock to be free.
SSEReturn(c) ==
    /\ spc[c] = "cancelled"
    /\ mu = "free"
    /\ mu' = c
    /\ spc' = [spc EXCEPT ![c] = "unsub_cs"]
    /\ UNCHANGED <<subs, queue, skey, unsubs, recvd, offered,
                   hpc, hkey, hevt, hrem, hseq, hmax, hdone, hbefore, hsess>>
    /\ UNCHANGED <<lifeVars, proxyVars, reapVars, leafVars>>

MaxRecv == 2

\* The reader of the channel takes the oldest buffered event (a slow reader:
\* it gets to read MaxRecv events in a run).
Receive(c) ==
    /\ queue[c] # <<>>
    /\ Len(recvd[c]) < MaxRecv
    /\ recvd' = [recvd EXCEPT ![c] = Append(@, Head(queue[c]))]
    /\ queue' = [queue EXCEPT ![c] = Tail(@)]
    /\ UNCHANGED <<mu, subs, spc, skey, unsubs, offered,
                   hpc, hkey, hevt, hrem, hseq, hmax, hdone, hbefore, hsess>>
    /\ UNCHANGED <<lifeVars, proxyVars, reapVars, leafVars>>

\* ------------------------------------------------------------------ Publish
\* A handler calls Publish(sessionID, evt): h.mu.Lock(), which waits for the
\* lock to be free.  The call is numbered here, in the order of the snapshots.
PublishLock(p, PK) ==
    /\ hpc[p] = "idle"
    /\ hseq < hmax
    /\ mu = "free"
    /\ mu' = p
    /\ \E k \in PK : /\ hkey' = [hkey EXCEPT ![p] = k]
                      /\ hsess' = [hsess EXCEPT ![hseq + 1] = k]
    /\ hseq' = hseq + 1
    /\ hevt' = [hevt EXCEPT ![p] = hseq + 1]
    /\ hbefore' = [hbefore EXCEPT ![hseq + 1] = hdone]
    /\ hpc' = [hpc EXCEPT ![p] = "snapshot"]
    /\ UNCHANGED <<subs, queue, spc, skey, unsubs, recvd, offered,
                   hrem, hmax, hdone>>
    /\ UNCHANGED <<lifeVars, proxyVars, reapVars, leafVars>>

\* chs made of every subscriber the hub has, whatever its key.
PublishSnapshot_Broadcast(p) ==
    /\ hpc[p] = "snapshot"
    /\ hrem' = [hrem EXCEPT ![p] = [sess |-> UNION {subs[k] : k \in Keys}, glob |-> {}]]
    /\ mu' = "free"
    /\ hpc' = [hpc EXCEPT ![p] = "send"]
    /\ UNCHANGED <<subs, queue, spc, skey, unsubs, recvd, offered,
                   hkey, hevt, hseq, hmax, hdone, hbefore, hsess>>
    /\ UNCHANGED <<lifeVars, proxyVars, reapVars, leafVars>>

\* chs: the session's subscribers, then the global ones; h.mu.Unlock()
PublishSnapshot(p) ==
    /\ hpc[p] = "snapshot"
    /\ hrem' = [hrem EXCEPT ![p] = [sess |-> subs[hkey[p]], glob |-> subs[globalKey]]]
    /\ mu' = "free"
    /\ hpc' = [hpc EXCEPT ![p] = "send"]
    /\ UNCHANGED <<subs, queue, spc, skey, unsubs, recvd, offered,
                   hkey, hevt, hseq, hmax, hdone, hbefore, hsess>>
    /\ UNCHANGED <<lifeVars, proxyVars, reapVars, leafVars>>

\* Publish with a plain `ch <- evt` for each subscriber: the send waits while
\* the subscriber's buffer is full.
PublishSend_Blocking(p) ==
    /\ hpc[p] = "send"
    /\ IF hrem[p] = NoRem
       THEN /\ hpc' = [hpc EXCEPT ![p] = "idle"]
            /\ hdone' = hdone \cup {hevt[p]}
            /\ UNCHANGED <<queue, offered, hrem>>
       ELSE /\ \E c \in (IF hrem[p].sess # {} THEN hrem[p].sess ELSE hrem[p].glob) :
                /\ Len(queue[c]) < QueueCap
                /\ queue' = [queue EXCEPT ![c] = TrySend(@, hevt[p])]
                /\ offered' = [offered EXCEPT ![c] = Append(@, hevt[p])]
                /\ hrem' = [hrem EXCEPT ![p] =
                              IF hrem[p].sess # {}
                              THEN [@ EXCEPT !.sess = @ \ {c}]
                              ELSE [@ EXCEPT !.glob = @ \ {c}]]
            /\ UNCHANGED <<hpc, hdone>>
    /\ UNCHANGED <<mu, subs, spc, skey, unsubs, recvd, hkey, hevt, hseq, hmax, hbefore, hsess>>
    /\ UNCHANGED <<lifeVars, proxyVars, reapVars, leafVars>>

\* One turn of `for _, ch := range chs`: the next channel (the session's
\* subscribers come first, each group in map order, which is any order), or
\* the return once chs is exhausted.
PublishSend(p) ==
    /\ hpc[p] = "send"
    /\ IF hrem[p] = NoRem
       THEN /\ hpc' = [hpc EXCEPT ![p] = "idle"]
            /\ hdone' = hdone \cup {hevt[p]}
            /\ UNCHANGED <<queue, offered, hrem>>
       ELSE /\ \E c \in (IF hrem[p].sess # {} THEN hrem[p].sess ELSE hrem[p].glob) :
                /\ queue' = [queue EXCEPT ![c] = TrySend(@, hevt[p])]
                /\ offered' = [offered EXCEPT ![c] = Append(@, hevt[p])]
                /\ hrem' = [hrem EXCEPT ![p] =
                              IF hrem[p].sess # {}
                              THEN [@ EXCEPT !.sess = @ \ {c}]
                              ELSE [@ EXCEPT !.glob = @ \ {c}]]
            /\ UNCHANGED <<hpc, hdone>>
    /\ UNCHANGED <<mu, subs, spc, skey, unsubs, recvd, hkey, hevt, hseq, hmax, hbefore, hsess>>
    /\ UNCHANGED <<lifeVars, proxyVars, reapVars, leafVars>>

\* The hub's steps for publishers P calling Publish with the keys PK and
\* channels C subscribed with the keys SK and unsubscribed up to U times.
HubActions(P, PK, C, SK, U) ==
    \/ \E c \in C : SubscribeLock(c, SK)
    \/ \E c \in C : SubscribeAdd(c)
    \/ \E c \in C : UnsubscribeLock(c, U)
    \/ \E c \in C : UnsubscribeDelete(c)
    \/ \E c \in C : Receive(c)
    \/ \E p \in P : PublishLock(p, PK)
    \/ \E p \in P : PublishSnapshot(p)
    \/ \E p \in P : PublishSend(p)

\* ======================================================= specifications
\* The coordinator's handlers, the reaper and the clock; the hub is seen
\* through the count of Publish calls.
Init == LifeInit(PersistedTables) /\ HubIdle(0)
Next == LifeNext
Spec == Init /\ [][Next]_vars

\* The hub under concurrent Publish, Subscribe, unsubscribe and reads, from
\* a hub whose subscriber c1 has one free slot left.
MaxPub == 2
MaxUnsubs == 1

HubInit ==
    /\ LifeInit({[id \in IDs |-> Absent]})
    /\ HubFilled(QueueCap - 1, MaxPub)
HubNext == HubActions(Publishers, {globalKey, "s1"}, Chans, {globalKey, "s1"}, MaxUnsubs)
HubSpec == HubInit /\ [][HubNext]_vars

\* HubSpec with the scheduling the Go runtime gives: a goroutine that can run
\* does run, and sync.Mutex hands the lock to every waiter in the end.
HubFairness ==
    /\ \A p \in Publishers :
          /\ WF_vars(PublishSnapshot(p))
          /\ WF_vars(PublishSend(p))
    /\ \A c \in Chans :
          /\ WF_vars(SubscribeAdd(c))
          /\ WF_vars(UnsubscribeDelete(c))
FairHubSpec == HubSpec /\ HubFairness

\* One handler publishing event after event to one subscriber.
MaxSeqPub == 18
MaxSeqUnsubs == 2

SeqHubInit == LifeInit({[id \in IDs |-> Absent]}) /\ HubIdle(MaxSeqPub)
SeqHubNext == HubActions({"h1"}, {"s1"}, {"c1"}, {"s1"}, MaxSeqUnsubs)
SeqHubSpec == SeqHubInit /\ [][SeqHubNext]_vars

\* The hub with subscribers of two sessions and global ones, and Publish
\* calls for either session.
IsoHubNext == HubActions(Publishers, {"s1", "s2"}, Chans, Keys, MaxUnsubs)
IsoHubSpec == HubInit /\ [][IsoHubNext]_vars

\* Two subscriptions to one session, each unsubscribed more than once, around
\* the Publish calls of one handler.
UnsubHubInit == LifeInit({[id \in IDs |-> Absent]}) /\ HubIdle(MaxPub)
UnsubHubNext == HubActions({"h1"}, {"s1"}, Chans, {"s1"}, MaxSeqUnsubs)
UnsubHubSpec == UnsubHubInit /\ [][UnsubHubNext]_vars

\* The node-local operations, called for any node at any time between the
\* heartbeats of the agents.
ProxyPaneFocused ==
    /\ \E node \in Nodes, remote \in RemoteOutcomes :
          pres' = PaneFocused(agents, node, now, remote)
    /\ UNCHANGED <<lifeVars, hubVars, reapVars, leafVars>>

ProxySendKeys ==
    /\ \E node \in Nodes, remote \in RemoteOutcomes :
          pres' = SendKeys(agents, node, now, remote)
    /\ UNCHANGED <<lifeVars, hubVars, reapVars, leafVars>>

ProxyReadTranscript ==
    /\ \E node \in Nodes, remote \in RemoteOutcomes :
          pres' = ReadTranscript(agents, node, now, remote)
    /\ UNCHANGED <<lifeVars, hubVars, reapVars, leafVars>>

ProxyInit == LifeInit({[id \in IDs |-> Absent]}) /\ HubIdle(0)
ProxyNext ==
    \/ \E w \in Workers : RegisterAgent(w)
    \/ \E w \in Workers : ReconcileList(w)
    \/ Tick
    \/ ProxyPaneFocused
    \/ ProxySendKeys
    \/ ProxyReadTranscript
ProxySpec == ProxyInit /\ [][ProxyNext]_vars

\* The reaper with its log line: a run of s.store.ReapStoppedSessions and the
\* IDs it returned, between end-session requests and clock advances.
MaxReaps == 2

ReapRun ==
    /\ reap.n < MaxReaps
    /\ sessions' = ReapStoppedSessions(sessions, now)
    /\ reap' = [n |-> reap.n + 1, ids |-> Reaped(sessions, now)]
    /\ UNCHANGED <<now, ticks, agents, published, pc, req, loc>>
    /\ UNCHANGED <<hubVars, proxyVars, leafVars>>

ReapInit == LifeInit(PersistedTables) /\ HubIdle(0)
ReapNext ==
    \/ ReapRun
    \/ Tick
    \/ \E w \in Workers : DeleteGet(w)
    \/ \E w \in Workers : DeleteStore(w)
    \/ \E w \in Workers : DeletePublish(w)
ReapSpec == ReapInit /\ [][ReapNext]_vars

\* The daemon that pushes notifications, up for a while.
PushInit == LifeInitAt(PushTables, PushStart) /\ HubIdle(0)
PushNext ==
    \/ \E w \in Workers : PushNotifyGet(w)
    \/ \E w \in Workers : PushNotifyStore(w)
    \/ \E w \in Workers : PushNotifyFocus(w)
    \/ \E w \in Workers : PushNotifySend(w)
    \/ \E w \in Workers : PushDeleteGet(w)
    \/ \E w \in Workers : PushDeleteStore(w)
    \/ \E w \in Workers : PushDeleteFocus(w)
    \/ \E w \in Workers : PushDeleteSend(w)
    \/ Tick
PushSpec == PushInit /\ [][PushNext]_vars

\* One run of the agent's pane discovery.
DiscoveryInit == LifeInit({[id \in IDs |-> Absent]}) /\ HubIdle(0)
DiscoveryNext == ListPanes \/ ListProcesses \/ FindClaudePanes
DiscoverySpec == DiscoveryInit /\ [][DiscoveryNext]_vars

\* One call of hasClaudeDescendant; the goroutine that runs it keeps running.
SearchInit == LifeInit({[id \in IDs |-> Absent]}) /\ HubIdle(0)
SearchNext == SearchStart \/ SearchTest \/ SearchBody
SearchSpec ==
    SearchInit /\ [][SearchNext]_vars /\ WF_vars(SearchTest) /\ WF_vars(SearchBody)

\* One call of transcript.Read.
TranscriptInit == LifeInit({[id \in IDs |-> Absent]}) /\ HubIdle(0)
TranscriptNext == ReadOpen \/ ReadScan \/ ReadFinish
TranscriptSpec == TranscriptInit /\ [][TranscriptNext]_vars

\* The event-stream handlers: clients that connect to a session's stream or to
\* the global one, read, and go away, around the Publish calls of two
\* handlers.  A goroutine that can run does run, and the lock is free again
\* and again.
SSEInit == LifeInit({[id \in IDs |-> Absent]}) /\ HubIdle(MaxPub)
SSENext ==
    \/ \E c \in Chans : SubscribeLock(c, {globalKey, "s1"})
    \/ \E c \in Chans : SubscribeAdd(c)
    \/ \E c \in Chans : SSEDisconnect(c)
    \/ \E c \in Chans : SSEReturn(c)
    \/ \E c \in Chans : UnsubscribeDelete(c)
    \/ \E c \in Chans : Receive(c)
    \/ \E p \in Publishers : PublishLock(p, {"s1"})
    \/ \E p \in Publishers : PublishSnapshot(p)
    \/ \E p \in Publishers : PublishSend(p)
SSEFairness ==
    /\ \A p \in Publishers :
          /\ WF_vars(PublishSnapshot(p))
          /\ WF_vars(PublishSend(p))
    /\ \A c \in Chans :
          /\ WF_vars(SubscribeAdd(c))
          /\ WF_vars(SSEReturn(c))
          /\ WF_vars(UnsubscribeDelete(c))
SSESpec == SSEInit /\ [][SSENext]_vars /\ SSEFairness

\* Heartbeats of the agents, possibly the same one delivered twice, among
\* session creations and clock advances.
HeartbeatNext ==
    \/ \E w \in Workers : RegisterAgent(w)
    \/ \E w \in Workers : ReconcileList(w)
    \/ \E w \in Workers : ReconcileStop(w)
    \/ \E w \in Workers : ReconcilePublish(w)
    \/ \E w \in Workers : CreateStore(w)
    \/ \E w \in Workers : CreateDedup(w)
    \/ \E w \in Workers : CreatePublish(w)
    \/ Tick
HeartbeatSpec == Init /\ [][HeartbeatNext]_vars

\* ------------------------------------------- a node and its heartbeats
\* The machine of node n1 next to the coordinator: claude processes start in
\* panes and exit, the session-start hook of a running process posts its
\* session, and the agent of the node takes a process snapshot and posts the
\* heartbeat built from it.  A session ID is used by one process only.
FleetNode == "n1"
FleetPanes == {"p0", "p1"}
FleetIDs == <<"s1", "s2">>

\* The session ID of the next process: the first one no process has used.
FreshID(tbl, id) ==
    \E i \in 1..Len(FleetIDs) :
        /\ FleetIDs[i] = id
        /\ ~tbl[id].present
        /\ \A j \in 1..(i - 1) : tbl[FleetIDs[j]].present

\* A claude process starts in a pane that runs none.
ClaudeStart(p) ==
    /\ p \notin live
    /\ live' = live \cup {p}
    /\ UNCHANGED <<beat, pushVars, discVars, transVars, searchVars>>
    /\ UNCHANGED <<lifeVars, hubVars, proxyVars, reapVars>>

\* The process of a pane exits; no end-session request is sent.
ClaudeExit(p) ==
    /\ p \in live
    /\ live' = live \ {p}
    /\ UNCHANGED <<beat, pushVars, discVars, transVars, searchVars>>
    /\ UNCHANGED <<lifeVars, hubVars, proxyVars, reapVars>>

\* Agent.register when a.listClaudePanes() succeeds: the payload lists the
\* panes that run claude at this moment, it is encoded and posted.
AgentDetect ==
    /\ ~beat.sent
    /\ beat' = [sent |-> TRUE,
                body |-> Marshal(heartbeatPayload(FleetNode,
                                                  [ok |-> TRUE, panes |-> live]))]
    /\ UNCHANGED <<live, pushVars, discVars, transVars, searchVars>>
    /\ UNCHANGED <<lifeVars, hubVars, proxyVars, reapVars>>

\* Agent.register when the detection fails (tmux or ps returns an error).
AgentDetectFails ==
    /\ ~beat.sent
    /\ beat' = [sent |-> TRUE,
                body |-> Marshal(heartbeatPayload(FleetNode,
                                                  [ok |-> FALSE, panes |-> {}]))]
    /\ UNCHANGED <<live, pushVars, discVars, transVars, searchVars>>
    /\ UNCHANGED <<lifeVars, hubVars, proxyVars, reapVars>>

\* handleAgentRegister on the request the agent posted.
FleetRegister(w) ==
    /\ Accepting(w)
    /\ beat.sent
    /\ LET r == DecodeRegister(beat.body)
       IN /\ agents' = Register(agents, r.node, now)
          /\ req' = [req EXCEPT ![w] =
                        [NoReq EXCEPT !.op = "register", !.node = r.node,
                                      !.aliveNonNil = r.aliveNonNil,
                                      !.alive = r.alive]]
    /\ Goto(w, "reconcile_list")
    /\ beat' = NoBeat
    /\ UNCHANGED <<live, pushVars, discVars, transVars, searchVars>>
    /\ UNCHANGED <<now, ticks, sessions, published, loc>>
    /\ UNCHANGED <<hubVars, proxyVars, reapVars>>

\* handleCreateSession on the request of the session-start hook of a process
\* that runs in a pane of the node, with a session ID of its own.
HookCreate(w) ==
    /\ CreateStore(w)
    /\ req'[w].node = FleetNode
    /\ req'[w].pane \in live
    /\ FreshID(sessions, req'[w].id)

\* The goroutine of a handler that has returned is gone; the next request
\* gets one of its own.
Recycle(w) ==
    /\ pc[w] = "done"
    /\ pc' = [pc EXCEPT ![w] = "idle"]
    /\ req' = [req EXCEPT ![w] = NoReq]
    /\ UNCHANGED <<now, ticks, sessions, agents, published, loc>>
    /\ UNCHANGED <<hubVars, proxyVars, reapVars, leafVars>>

FleetInit == LifeInit({[id \in IDs |-> Absent]}) /\ HubIdle(0)
FleetNext ==
    \/ \E p \in FleetPanes : ClaudeStart(p)
    \/ \E p \in FleetPanes : ClaudeExit(p)
    \/ AgentDetect
    \/ AgentDetectFails
    \/ \E w \in Workers : FleetRegister(w)
    \/ \E w \in Workers : ReconcileList(w)
    \/ \E w \in Workers : ReconcileStop(w)
    \/ \E w \in Workers : ReconcilePublish(w)
    \/ \E w \in Workers : HookCreate(w)
    \/ \E w \in Workers : CreateDedup(w)
    \/ \E w \in Workers : CreatePublish(w)
    \/ \E w \in Workers : Recycle(w)
FleetSpec == FleetInit /\ [][FleetNext]_vars

\* The agent's ticker keeps firing and its detection succeeds again and
\* again; a request that was posted is handled, and a handler that can take
\* its next step takes it.
FairFleetSpec ==
    /\ FleetSpec
    /\ SF_vars(AgentDetect)
    /\ \A w \in Workers :
        /\ WF_vars(FleetRegister(w))
        /\ WF_vars(ReconcileList(w))
        /\ WF_vars(ReconcileStop(w))
        /\ WF_vars(ReconcilePublish(w))
        /\ WF_vars(CreateDedup(w))
        /\ WF_vars(CreatePublish(w))
        /\ WF_vars(Recycle(w))

\* ================================================================ claims
\* Worker w takes the handler step that leads from label `from` to label `to`.
Took(w, from, to) == pc[w] = from /\ pc'[w] = to

SamePane(row, node, pane) == row.node = node /\ row.pane = pane

\* C1: at any time at most one session per (node, pane) is active.
C1_OneActivePerPane ==
    \A a, b \in IDs :
        (/\ a # b
         /\ IsActive(sessions[a])
         /\ IsActive(sessions[b])
         /\ sessions[a].pane # NoPane)
        => ~SamePane(sessions[b], sessions[a].node, sessions[a].pane)

\* C2 as claimed: when a heartbeat's reconciliation is through with the store,
\* every session then active on the node whose pane is not in the alive set
\* is stopped, and no session whose pane is in the alive set was stopped by it.
C2_Original ==
    [][\A w \in Workers :
         (/\ pc[w] \in {"reconcile_list", "reconcile_stop"}
          /\ pc'[w] \in {"done", "reconcile_publish"}
          /\ req[w].aliveNonNil)
         => \A id \in IDs :
              /\ (IsActive(sessions[id]) /\ sessions[id].node = req[w].node
                   /\ sessions[id].pane \notin req[w].alive)
                  => ~IsActive(sessions'[id])
              /\ (IsActive(sessions[id]) /\ sessions[id].pane \in req[w].alive)
                  => IsActive(sessions'[id])]_vars

\* C2, amended: the heartbeat's reconciliation picks exactly the sessions that,
\* when it reads the node's active sessions, are active on the node with a
\* recorded pane that is not in the alive set; its stop then stops every one of
\* these that is still active, and changes no other session.
C2_ReconcileStopsDeadPanes ==
    [][\A w \in Workers :
         /\ (pc[w] = "reconcile_list" /\ pc'[w] # pc[w] /\ req[w].aliveNonNil)
            => LET dead == {id \in IDs : /\ IsActive(sessions[id])
                                         /\ sessions[id].node = req[w].node
                                         /\ sessions[id].pane # NoPane
                                         /\ sessions[id].pane \notin req[w].alive}
               IN /\ sessions' = sessions
                  /\ IF dead = {} THEN pc'[w] = "done"
                     ELSE pc'[w] = "reconcile_stop" /\ loc'[w].ids = dead
         /\ Took(w, "reconcile_stop", "reconcile_publish")
            => \A id \in IDs :
                 IF id \in loc[w].ids /\ IsActive(sessions[id])
                 THEN sessions'[id] = [sessions[id] EXCEPT !.stopped = formatTime(now)]
                 ELSE sessions'[id] = sessions[id]]_vars

\* C2 witness: the alive set {p0} met active sessions on p0, p1 and p2 of the
\* node, and exactly the sessions on p1 and p2 are stopped.
C2_Witness ==
    \E w \in Workers :
        /\ pc[w] = "reconcile_publish"
        /\ req[w].alive = {"p0"}
        /\ loc[w].ids = {"s2", "s3"}
        /\ IsActive(sessions["s1"]) /\ sessions["s1"].pane = "p0"
        /\ ~IsActive(sessions["s2"]) /\ sessions["s2"].pane = "p1"
        /\ ~IsActive(sessions["s3"]) /\ sessions["s3"].pane = "p2"

\* C3: a heartbeat sent after a failed pane detection has no alive-panes
\* field; the handler refreshes the registration, stops no session and ends
\* without reconciling.
C3_AbsentFieldStopsNothing ==
    [][\A w \in Workers :
         /\ (Took(w, "idle", "reconcile_list") /\ ~req'[w].det.ok)
            => /\ ~req'[w].aliveNonNil
               /\ agents'[req'[w].node] = now
               /\ sessions' = sessions
         /\ (pc[w] = "reconcile_list" /\ pc'[w] # pc[w] /\ ~req[w].aliveNonNil)
            => pc'[w] = "done" /\ sessions' = sessions]_vars

\* C3 witness: such a heartbeat has been registered for a node that has
\* active sessions.
C3_Witness ==
    \E w \in Workers :
        /\ pc[w] = "reconcile_list"
        /\ ~req[w].det.ok
        /\ ~req[w].aliveNonNil
        /\ agents[req[w].node] = now
        /\ ListActiveSessionsByNode(sessions, req[w].node) # {}

\* C4: after a successful pane detection the heartbeat the coordinator gets
\* carries the alive-panes field, also when no pane was found alive.
C4_SuccessfulDetectionSendsField ==
    \A w \in Workers :
        (pc[w] = "reconcile_list" /\ req[w].det.ok) => req[w].aliveNonNil

\* C5: creating a session stops every other active session on its (node, pane)
\* and no other one, and leaves the new session as it stored it; with an empty
\* pane it stops none.
C5_SamePaneDedup ==
    [][\A w \in Workers :
         /\ (pc[w] = "idle" /\ pc'[w] # "idle" /\ req'[w].op = "create")
            => /\ IsActive(sessions'[req'[w].id])
               /\ \A id \in IDs \ {req'[w].id} : sessions'[id] = sessions[id]
               /\ pc'[w] = IF req'[w].pane = NoPane THEN "create_publish"
                           ELSE "create_dedup"
         /\ Took(w, "create_dedup", "create_publish")
            => \A id \in IDs :
                 IF /\ id # req[w].id
                    /\ IsActive(sessions[id])
                    /\ SamePane(sessions[id], req[w].node, req[w].pane)
                 THEN ~IsActive(sessions'[id])
                 ELSE sessions'[id] = sessions[id]
         /\ (pc[w] = "create_publish" /\ pc'[w] # pc[w])
            => sessions' = sessions]_vars

\* C5 witness: a create has stopped the session that held its pane, the new
\* session is active, and a session on another pane of the node is active.
C5_Witness ==
    \E w \in Workers :
        /\ pc[w] = "create_publish"
        /\ loc[w].ids # {}
        /\ IsActive(sessions[req[w].id])
        /\ \A id \in loc[w].ids :
              ~IsActive(sessions[id]) /\ SamePane(sessions[id], req[w].node, req[w].pane)
        /\ \E id \in IDs : /\ IsActive(sessions[id])
                            /\ sessions[id].node = req[w].node
                            /\ sessions[id].pane \notin {NoPane, req[w].pane}

\* C6: once a session's stopped_at is set, no operation clears or changes it.
C6_StoppedAtSetOnce ==
    [][\A id \in IDs :
         (sessions[id].present /\ ~IsZero(sessions[id].stopped) /\ sessions'[id].present)
         => sessions'[id].stopped = sessions[id].stopped]_vars

\* C7: a session goes from active to stopped only by an explicit end, by the
\* dedup of a create on its (node, pane), or by a heartbeat whose alive set
\* lacks its pane; the passing of time stops none.
C7_OnlyListedStops ==
    [][\A id \in IDs :
         (IsActive(sessions[id]) /\ sessions'[id].present /\ ~IsActive(sessions'[id]))
         => \E w \in Workers :
              \/ Took(w, "delete_store", "delete_publish") /\ req[w].id = id
              \/ /\ Took(w, "create_dedup", "create_publish")
                 /\ req[w].id # id
                 /\ SamePane(sessions[id], req[w].node, req[w].pane)
              \/ /\ Took(w, "reconcile_stop", "reconcile_publish")
                 /\ req[w].aliveNonNil
                 /\ sessions[id].node = req[w].node
                 /\ sessions[id].pane \notin req[w].alive]_vars

Range(q) == {q[i] : i \in 1..Len(q)}
Min(a, b) == IF a < b THEN a ELSE b

\* What channel c has been given so far: what was read from it, then what it holds.
Delivered(c) == recvd[c] \o queue[c]

\* C8: Publish never blocks.  A Publish call that is sending can always take
\* its next step, whatever the state of the queues; whoever holds the hub's
\* lock can always release it; a send to a full queue changes no queue; and
\* every Publish call that has started returns.
C8_PublishNeverBlocks ==
    /\ [](\A p \in Publishers : hpc[p] = "send" => ENABLED PublishSend(p))
    /\ [](\A p \in Publishers : mu = p => ENABLED PublishSnapshot(p))
    /\ [](\A c \in Chans : mu = c => ENABLED (SubscribeAdd(c) \/ UnsubscribeDelete(c)))
    /\ [][\A p \in Publishers, c \in Chans :
            (hpc[p] = "send" /\ offered'[c] # offered[c] /\ Len(queue[c]) = QueueCap)
            => queue' = queue /\ hpc'[p] = "send"]_vars
    /\ \A p \in Publishers : (hpc[p] # "idle") ~> (hpc[p] = "idle")

\* C8 witness: a Publish call has returned whose event found the queue of one
\* of its subscribers full.
C8_Witness ==
    \E c \in Chans, e \in hdone :
        /\ e \in Range(offered[c])
        /\ e \notin Range(Delivered(c))
        /\ Len(queue[c]) = QueueCap

\* C9: a queue never holds more than 16 events, and a subscriber that has read
\* nothing holds the first min(n, 16) of the n events published to it.
C9_QueueHoldsFirst16 ==
    \A c \in Chans :
        /\ Len(queue[c]) <= 16
        /\ recvd[c] = <<>>
           => queue[c] = SubSeq(offered[c], 1, Min(Len(offered[c]), 16))

\* C9 witness: more than 16 events were published to a subscriber that read
\* nothing; it holds 16, and every Publish call has returned.
C9_Witness ==
    \E c \in Chans :
        /\ Len(offered[c]) > 16
        /\ recvd[c] = <<>>
        /\ queue[c] = Upto(16)
        /\ hdone = 1..Len(offered[c])

\* C10 as claimed: a subscriber gets the events of one session in the order
\* in which they were published, which for calls of concurrent handlers is
\* the order in which Publish took their snapshots of the subscriber set.
C10_Original ==
    \A c \in Chans :
        \A i, j \in 1..Len(Delivered(c)) :
            (i < j /\ hsess[Delivered(c)[i]] = hsess[Delivered(c)[j]])
            => Delivered(c)[i] < Delivered(c)[j]

\* C10, amended: of two events of one session that reach the same subscriber,
\* the one whose Publish call had returned before the other's began is
\* received first; calls that overlap may be received in either order.
C10_OrderOfCompletedCalls ==
    \A c \in Chans :
        \A i, j \in 1..Len(Delivered(c)) :
            (i < j /\ hsess[Delivered(c)[i]] = hsess[Delivered(c)[j]])
            => Delivered(c)[j] \notin hbefore[Delivered(c)[i]]

\* C10 witness: a subscriber holds two events of one session published in
\* this run by calls of which the first had returned before the second began.
C10_Witness ==
    \E c \in Chans :
        \E i, j \in 1..Len(Delivered(c)) :
            /\ i < j
            /\ Delivered(c)[i] >= QueueCap
            /\ hsess[Delivered(c)[i]] = hsess[Delivered(c)[j]]
            /\ Delivered(c)[i] \in hbefore[Delivered(c)[j]]

\* C11: Publish(sessionID, evt) takes as its receivers exactly the channels
\* then subscribed to sessionID or to the global key; each of them gets the
\* event if its queue has room; a call that returned has offered the event to
\* every matching subscriber that was subscribed before it and still is; and
\* no channel is ever given an event published for another session.
C11_PublishReachesItsSubscribers ==
    /\ [][\A p \in Publishers :
            (hpc[p] = "snapshot" /\ hpc'[p] = "send")
            => hrem'[p].sess \cup hrem'[p].glob =
                  {c \in Chans : /\ spc[c] = "subscribed"
                                  /\ skey[c] \in {hkey[p], globalKey}}]_vars
    /\ [][\A p \in Publishers, c \in Chans :
            (hpc[p] = "send" /\ hrem'[p] # hrem[p] /\ offered'[c] # offered[c])
            => queue'[c] = IF Len(queue[c]) < QueueCap
                           THEN Append(queue[c], hevt[p]) ELSE queue[c]]_vars
    /\ [](\A c \in Chans, e \in hdone :
            (/\ spc[c] = "subscribed"
             /\ skey[c] \in {hsess[e], globalKey}
             /\ \E e0 \in Range(offered[c]) : e0 < e)
            => e \in Range(offered[c]))
    /\ [](\A c \in Chans : \A e \in Range(Delivered(c)) :
            skey[c] \in {hsess[e], globalKey})

\* C11 witness: an event published for s2 has reached a subscriber of s2 and a
\* global subscriber was given an event of s1, while the subscriber of s1,
\* there all along, was not offered the event of s2.
C11_Witness ==
    \E e \in hdone :
        /\ hsess[e] = "s2"
        /\ spc["c1"] = "subscribed" /\ skey["c1"] = "s1"
        /\ e \notin Range(offered["c1"])
        /\ \E f \in hdone : hsess[f] = "s1" /\ f > e /\ f \in Range(offered["c1"])
        /\ spc["c2"] = "subscribed"
        /\ \/ skey["c2"] = "s2" /\ e \in Range(Delivered("c2"))
           \/ skey["c2"] = globalKey /\ e \in Range(Delivered("c2"))

\* C12: unsubscribe is idempotent.  A call takes the caller's channel out of
\* the hub and nothing else; a repeated call changes nothing in the hub; a
\* subscriber that has not unsubscribed stays in the hub whatever the others
\* do; an unsubscribed channel is in no subscriber set.
C12_UnsubscribeIdempotent ==
    /\ [][\A c \in Chans :
            (spc[c] = "unsub_cs" /\ spc'[c] = "unsubscribed")
            => /\ subs' = [subs EXCEPT ![skey[c]] = @ \ {c}]
               /\ unsubs[c] >= 1 => subs' = subs
               /\ queue' = queue
               /\ \A d \in Chans \ {c} : spc'[d] = spc[d]]_vars
    /\ [](\A c \in Chans :
            /\ spc[c] = "subscribed" => c \in subs[skey[c]]
            /\ spc[c] = "unsubscribed" => \A k \in Keys : c \notin subs[k])

\* C12 witness: c1 was sent an event, unsubscribed twice, and the subscriber
\* c2 of the same session, which came after that event, is still subscribed
\* and was sent a later event that c1 was not offered.
C12_Witness ==
    /\ unsubs["c1"] = 2
    /\ spc["c2"] = "subscribed" /\ skey["c2"] = skey["c1"]
    /\ "c2" \in subs[skey["c2"]]
    /\ \E e, f \in hdone :
          /\ e \in Range(Delivered("c1")) /\ e \notin Range(offered["c2"])
          /\ f \in Range(Delivered("c2")) /\ f \notin Range(offered["c1"])

\* C13: the registry's last-seen time of a node is the time of the node's
\* latest registration; a node is healthy exactly when it has registered and
\* less than 90 seconds have passed since; a registration makes its node
\* healthy at once.
C13_HealthyIffSeenWithin90s ==
    /\ [][\A n \in Nodes :
            agents'[n] # agents[n]
            => \E w \in Workers : /\ Took(w, "idle", "reconcile_list")
                                   /\ req'[w].node = n
                                   /\ agents'[n] = now]_vars
    /\ [][\A w \in Workers :
            Took(w, "idle", "reconcile_list")
            => /\ agents'[req'[w].node] = now
               /\ IsHealthy(agents', req'[w].node, now')]_vars
    /\ [](\A n \in Nodes :
            IsHealthy(agents, n, now)
            <=> (agents[n] # 0 /\ now - agents[n] < 90 * TicksPerSecond))

\* C13 witness: a node that registered exactly 90 seconds ago is unhealthy,
\* and another that never registered is unhealthy.
C13_Witness ==
    \E n, m \in Nodes :
        /\ agents[n] # 0
        /\ now - agents[n] = 90 * TicksPerSecond
        /\ ~IsHealthy(agents, n, now)
        /\ agents[m] = 0
        /\ ~IsHealthy(agents, m, now)

\* C14: a node-local operation calls the agent exactly when the node has
\* registered less than 90 seconds before; otherwise the focus check answers
\* false, the transcript read gives an empty transcript and no error, and
\* send keys gives its own error.
C14_ProxyOnlyToHealthyAgent ==
    [][pres' # pres
       => LET healthy == /\ agents[pres'.node] # 0
                         /\ now - agents[pres'.node] < 90 * TicksPerSecond
          IN /\ pres'.called <=> healthy
             /\ ~healthy
                => /\ pres'.op = "focus" => ~pres'.focused
                   /\ pres'.op = "transcript" => pres'.tr = "empty" /\ pres'.err = "nil"
                   /\ pres'.op = "sendkeys" => pres'.err = "no healthy agent"]_vars

\* C14 witness: send keys for a node whose agent registered 90 seconds ago
\* made no call and gave its error.
C14_Witness ==
    /\ pres.op = "sendkeys"
    /\ agents[pres.node] # 0
    /\ now - agents[pres.node] >= 90 * TicksPerSecond
    /\ ~pres.called
    /\ pres.err = "no healthy agent"

\* The sessions that a step takes from active to stopped.
StoppedNow == {id \in IDs : IsActive(sessions[id]) /\ sessions'[id].present
                             /\ ~IsActive(sessions'[id])}

SessionEnds(pub, id) == pub[<<"session_end", id>>]

\* C15: the handler that stops sessions - the reconciliation of a heartbeat,
\* the dedup of a create, an explicit end - goes on to its publishing step
\* with every session it stopped on its list, and that step publishes one
\* session-end event for each session on the list, under the session's ID.
C15_SessionEndPerStop ==
    [][\A w \in Workers :
         /\ Took(w, "reconcile_stop", "reconcile_publish") => StoppedNow \subseteq loc'[w].ids
         /\ Took(w, "create_dedup", "create_publish") => StoppedNow \subseteq loc'[w].ids
         /\ pc[w] = "delete_store" /\ pc'[w] # pc[w]
            => /\ StoppedNow \subseteq {req[w].id}
               /\ StoppedNow # {} => pc'[w] = "delete_publish" /\ req'[w].id = req[w].id
         /\ pc[w] \in {"reconcile_publish", "create_publish"} /\ pc'[w] # pc[w]
            => \A id \in loc[w].ids :
                  SessionEnds(published', id) = SessionEnds(published, id) + 1
         /\ pc[w] = "delete_publish" /\ pc'[w] # pc[w]
            => SessionEnds(published', req[w].id) = SessionEnds(published, req[w].id) + 1]_vars

\* C15 witness: one heartbeat, and nothing else, has stopped two sessions and
\* a session-end event was published for each.
C15_Witness ==
    /\ pc["w1"] = "done" /\ pc["w2"] = "idle"
    /\ IsActive(sessions["s1"])
    /\ sessions["s2"].present /\ ~IsActive(sessions["s2"])
    /\ sessions["s3"].present /\ ~IsActive(sessions["s3"])
    /\ SessionEnds(published, "s2") = 1
    /\ SessionEnds(published, "s3") = 1
    /\ SessionEnds(published, "s1") = 0

\* C16: a turn-end or an end-session request for a session the store does not
\* hold - when the handler reads it, or no more when the handler writes it -
\* is answered with success, and changes no record and publishes no event.
C16_UnknownSessionNoOp ==
    [][\A w \in Workers :
         /\ (pc[w] = "idle" /\ pc'[w] = "done" /\ req'[w].op \in {"activity", "delete"})
            => /\ req'[w].status = 200
               /\ sessions' = sessions
               /\ published' = published
         /\ (/\ pc[w] \in {"activity_store", "delete_store"}
             /\ pc'[w] # pc[w]
             /\ ~sessions[req[w].id].present)
            => /\ pc'[w] = "done"
               /\ req'[w].status = 200
               /\ sessions' = sessions
               /\ published' = published]_vars

C18_LastActivityMonotonic ==
    [][\A id \in IDs :
         (sessions[id].present /\ sessions'[id].present)
         => sessions'[id].last >= sessions[id].last]_vars

\* C19: a session of the store has stopped_at unset exactly when it is in
\* ListActive's result and not in ListRecent's, whatever limit ListRecent is
\* given and whichever of its possible results it gives.
C19_ActiveIffListedActive ==
    \A id \in IDs :
        sessions[id].present
        => \A limit \in RecentLimits : \A R \in ListRecentSessions(sessions, limit) :
              IsZero(sessions[id].stopped)
              <=> (id \in ListActiveSessions(sessions) /\ id \notin R)

\* C19 witness: the store holds an active session, and two stopped ones of
\* which ListRecent with limit 1 gives only one.
C19_Witness ==
    /\ Cardinality(ListActiveSessions(sessions)) >= 1
    /\ Cardinality(StoppedSessions(sessions)) = 2
    /\ \E R \in ListRecentSessions(sessions, 1) : Cardinality(R) = 1
    /\ \A R \in ListRecentSessions(sessions, 20) : R = StoppedSessions(sessions)

\* The rows a step deletes.
DeletedNow == {id \in IDs : sessions[id].present /\ ~sessions'[id].present}

ActiveSet(tbl) == {id \in IDs : IsActive(tbl[id])}

\* C21: reconciliation stops are independent and idempotent.  The stop of a
\* reconciliation changes no session that is stopped already, so a heartbeat
\* delivered twice stamps its sessions once.  When a heartbeat's
\* reconciliation reads the store: a run right after a complete one, with the
\* same node and alive set, changes nothing; and a run after any part of the
\* stops of an interrupted one leaves the same sessions active and stopped as
\* the complete run, the stopped_at of the sessions stopped before it unchanged.
C21_ReconcileIdempotent ==
    [][\A w \in Workers :
         /\ Took(w, "reconcile_stop", "reconcile_publish")
            => \A id \in IDs :
                  (sessions[id].present /\ ~IsActive(sessions[id]))
                  => sessions'[id] = sessions[id]
         /\ (pc[w] = "reconcile_list" /\ pc'[w] # pc[w] /\ req[w].aliveNonNil)
            => \A t \in {now} \cup {now + d : d \in TickSteps} :
                 LET node == req[w].node
                     alive == req[w].alive
                     once == reconcileSessions(sessions, node, alive, now)
                     picked == ToStop(sessions, ListActiveSessionsByNode(sessions, node), alive)
                 IN /\ reconcileSessions(once, node, alive, t) = once
                    /\ \A id \in IDs \ ActiveSet(sessions) : once[id] = sessions[id]
                    /\ \A some \in SUBSET picked :
                          LET part == StopSessions(sessions, some, now)
                              again == reconcileSessions(part, node, alive, t)
                          IN /\ ActiveSet(again) = ActiveSet(once)
                             /\ \A id \in IDs : again[id].present = once[id].present
                             /\ \A id \in IDs \ ActiveSet(part) : again[id] = part[id]]_vars

\* C21 witness: a heartbeat was delivered twice; the first delivery stopped two
\* sessions, and the stop of the second, a second or more later, left their
\* stopped_at as it was.
C21_Witness ==
    /\ pc["w1"] = "done"
    /\ pc["w2"] = "reconcile_publish"
    /\ Cardinality(loc["w2"].ids) = 2
    /\ \A id \in loc["w2"].ids :
          /\ sessions[id].present
          /\ ~IsZero(sessions[id].stopped)
          /\ sessions[id].stopped < formatTime(now)

\* EventHub.SubscriberCount
SubscriberCount(key) == Cardinality(subs[key])

\* The clients of a key whose handler has subscribed and not yet unsubscribed.
Connected(key) ==
    {c \in Chans : skey[c] = key /\ spc[c] \in {"subscribed", "cancelled", "unsub_cs"}}

\* C22: when the client of an event stream goes away, its handler returns
\* and unsubscribes without waiting for anything but the hub's lock.  The
\* subscriber count of a key is the number of its clients that have subscribed
\* and not unsubscribed, so the count is one more after a client's Subscribe
\* and back by one after its unsubscribe; and a Publish call that takes its
\* snapshot after the unsubscribe returned does not send to that client.
C22_DisconnectUnsubscribes ==
    /\ \A c \in Chans : (spc[c] = "cancelled") ~> (spc[c] = "unsubscribed")
    /\ [](\A c \in Chans :
            (spc[c] = "cancelled" /\ mu = "free") => ENABLED SSEReturn(c))
    /\ [](\A k \in Keys : SubscriberCount(k) = Cardinality(Connected(k)))
    /\ [][\A c \in Chans :
            /\ (spc[c] = "sub_cs" /\ spc'[c] = "subscribed")
               => SubscriberCount(skey[c])' = SubscriberCount(skey[c]) + 1
            /\ (spc[c] = "unsub_cs" /\ spc'[c] = "unsubscribed")
               => SubscriberCount(skey[c])' = SubscriberCount(skey[c]) - 1]_vars
    /\ [][\A p \in Publishers, c \in Chans :
            (hpc[p] = "snapshot" /\ hpc'[p] = "send" /\ spc[c] = "unsubscribed")
            => c \notin hrem'[p].sess \cup hrem'[p].glob]_vars

\* C22 witness: the client c1 was sent an event, went away and is
\* unsubscribed; the count of its key is that of the other clients; an event
\* published afterwards reached the client c2 and was not offered to c1.
C22_Witness ==
    /\ spc["c1"] = "unsubscribed"
    /\ spc["c2"] = "subscribed"
    /\ SubscriberCount(skey["c1"]) =
          Cardinality({c \in {"c2"} : skey[c] = skey["c1"]})
    /\ \E e, f \in hdone :
          /\ e < f
          /\ e \in Range(Delivered("c1"))
          /\ f \notin Range(offered["c1"])
          /\ f \in Range(Delivered("c2"))

\* C23: the reconciliation of a heartbeat of node N changes no session of
\* another node and no session that has no pane recorded, whatever its alive
\* set.
C23_ReconcileFrame ==
    [][\A w \in Workers :
         (pc[w] \in {"reconcile_list", "reconcile_stop", "reconcile_publish"}
          /\ pc'[w] # pc[w])
         => \A id \in IDs :
               (sessions[id].present
                /\ (sessions[id].node # req[w].node \/ sessions[id].pane = NoPane))
               => sessions'[id] = sessions[id]]_vars

\* C24: a turn-end is not a session termination.  The handler's write of a
\* turn-end leaves the session's stopped_at as it is in the store, so an
\* active session stays active, and does not move its last_activity_at back;
\* it changes no other session.
C24_TurnEndKeepsStoppedAt ==
    [][\A w \in Workers :
         (pc[w] \in {"activity_store", "activity_publish"} /\ pc'[w] # pc[w])
         => /\ \A id \in IDs \ {req[w].id} : sessions'[id] = sessions[id]
            /\ sessions'[req[w].id].stopped = sessions[req[w].id].stopped
            /\ sessions'[req[w].id].last >= sessions[req[w].id].last]_vars

\* C25: the handler of a notification request stores the session with the
\* time of the notification whatever the focus check says, stores nothing
\* more after it, and then sends one push notification exactly when the pane
\* is not focused; no pane, an error of the focus query or an output it
\* cannot read count as not focused.
C25_NotifyUnlessFocused ==
    [][\A w \in Workers :
         /\ Took(w, "push_notify_store", "push_notify_focus")
            => /\ sessions'[req[w].id].present
               /\ sessions'[req[w].id].last \in {formatTime(loc[w].t), formatTime(now)}
               /\ ntfy' = ntfy
         /\ (pc[w] \in {"push_notify_focus", "push_notify_send"} /\ pc'[w] # pc[w])
            => sessions' = sessions
         /\ (pc[w] = "push_notify_send" /\ pc'[w] # pc[w])
            => LET focused == /\ loc[w].sess.pane # NoPane
                              /\ Len(loc[w].tmux) = 3
                              /\ loc[w].tmux[1] = "1"
                              /\ loc[w].tmux[2] = "1"
                              /\ loc[w].tmux[3] # "0"
               IN IF focused THEN ntfy' = ntfy
                  ELSE /\ Len(ntfy') = Len(ntfy) + 1
                       /\ ntfy'[Len(ntfy')].kind = "notify"
                       /\ ntfy'[Len(ntfy')].id = req[w].id]_vars

\* C25 witness: a notification for a session whose focus query failed was
\* pushed, after one for a session without a pane; the sessions are stored.
C25_Witness ==
    /\ Len(ntfy) = 2
    /\ ntfy[1].kind = "notify" /\ sessions[ntfy[1].id].pane = NoPane
    /\ ntfy[2].kind = "notify" /\ sessions[ntfy[2].id].pane # NoPane
    /\ pc["w1"] = "done" /\ pc["w2"] = "done"
    /\ \A i \in 1..2 : sessions[ntfy[i].id].last >= formatTime(PushStart)

\* The time a session's duration is measured from, as the handler of the end
\* of the session read it.
EndReference(w) ==
    IF loc[w].sess.last = 0 THEN loc[w].sess.started ELSE loc[w].sess.last

\* C26: when a session ends, the handler goes on to the focus check exactly
\* when the time since the session's last_activity_at (started_at when that
\* is unset) is at least MinSessionAge seconds, and otherwise sends nothing;
\* after the focus check it sends one completion notification exactly when
\* the pane is not focused, and the minutes it reports are those since that
\* same reference point.
C26_StopNotificationAge ==
    [][\A w \in Workers :
         /\ (pc[w] = "push_delete_store" /\ pc'[w] # pc[w])
            => /\ ntfy' = ntfy
               /\ sessions'[req[w].id].stopped = formatTime(now)
               /\ IF now - EndReference(w) >= MinSessionAge * TicksPerSecond
                  THEN pc'[w] = "push_delete_focus" /\ loc'[w].t = now
                  ELSE pc'[w] = "done" /\ req'[w].status = 200
         /\ Took(w, "push_delete_focus", "push_delete_send")
            => ntfy' = ntfy /\ sessions' = sessions
         /\ (pc[w] = "push_delete_send" /\ pc'[w] # pc[w])
            => LET focused == /\ loc[w].sess.pane # NoPane
                              /\ Len(loc[w].tmux) = 3
                              /\ loc[w].tmux[1] = "1"
                              /\ loc[w].tmux[2] = "1"
                              /\ loc[w].tmux[3] # "0"
                   elapsed == loc[w].t - EndReference(w)
               IN /\ elapsed >= MinSessionAge * TicksPerSecond
                  /\ sessions' = sessions
                  /\ IF focused THEN ntfy' = ntfy
                     ELSE /\ Len(ntfy') = Len(ntfy) + 1
                          /\ ntfy'[Len(ntfy')].kind = "stop"
                          /\ ntfy'[Len(ntfy')].id = req[w].id
                          /\ LET m == ntfy'[Len(ntfy')].mins
                             IN /\ m * 60 * TicksPerSecond <= elapsed
                                /\ elapsed < (m + 1) * 60 * TicksPerSecond]_vars

\* C26 witness: the end of s1, active until MinSessionAge seconds ago but
\* started long before, was pushed with the minutes since its last activity;
\* the end of s3, which has no last activity, with the minutes since its
\* start.
C26_Witness ==
    /\ Len(ntfy) = 2
    /\ ntfy[1] = [kind |-> "stop", id |-> "s1", mins |-> MinSessionAge \div 60]
    /\ ntfy[2].kind = "stop" /\ ntfy[2].id = "s3"
    /\ ntfy[2].mins = (now - sessions["s3"].started) \div (60 * TicksPerSecond)
    /\ ntfy[2].mins > ntfy[1].mins
    /\ sessions["s1"].started + MinSessionAge * TicksPerSecond < sessions["s1"].last
    /\ sessions["s1"].stopped > 0 /\ sessions["s3"].stopped > 0
    /\ ticks = 0

\* q is a descendant of p: p is q's parent, or an ancestor of q's parent.
RECURSIVE Descends(_, _, _)
Descends(tbl, q, p) ==
    \/ tbl[q].ppid = p
    \/ tbl[q].ppid \in Pids /\ Descends(tbl, tbl[q].ppid, p)

\* The command names of the agent binary: its own, and the truncated name
\* of the wrapped binary.
AgentComms == {"claude", ".claude-unwrapp"}

\* The panes whose shell has a descendant with one of the names.
PanesOver(names) ==
    { paneID \in DOMAIN panes :
        \E q \in Pids : procs[q].comm \in names /\ Descends(procs, q, panes[paneID]) }

\* C27: the discovery reports a pane alive exactly when some descendant of
\* the pane's shell, at any depth, is an agent process.
C27_AliveIffAgentDescendant ==
    [][dpc = "find" /\ dpc' = "found" => result' = PanesOver(AgentComms)]_vars

\* C28: a pane whose shell has a descendant named ".claude-unwrapp" is
\* reported alive.
C28_WrappedBinaryCounts ==
    [][dpc = "find" /\ dpc' = "found" => PanesOver({".claude-unwrapp"}) \subseteq result']_vars

\* The tool invocations of the transcript Read returned.
ShownTools ==
    { blk \in UNION { Range(messages[i].blocks) : i \in 1..Len(messages) } :
        blk.type = "tool_use" }

\* Some entry of the log, whichever, holds the plan-exit tool invocation.
PlanExitInLog ==
    \E i \in 1..Len(lines) : \E j \in 1..Len(lines[i].blocks) :
        lines[i].blocks[j].type = "tool_use" /\ lines[i].blocks[j].name = "ExitPlanMode"

\* C29: a file-write invocation of the transcript keeps its raw input when
\* the plan-exit invocation is anywhere in the log, and has no input when it
\* is nowhere.
C29_WriteInputKeptAcrossMessages ==
    tpc = "done" =>
        \A blk \in ShownTools :
            blk.text = <<"Write">> /\ blk.toolInput # ""
            => blk.input = (IF PlanExitInLog THEN blk.toolInput ELSE "")

\* The places <<i, j>> of the log that hold a result linked to the
\* invocation id.
LinkedResults(id) ==
    { ij \in (1..Len(lines)) \X (1..2) :
        /\ ij[2] <= Len(lines[ij[1]].blocks)
        /\ lines[ij[1]].blocks[ij[2]].type = "tool_result"
        /\ lines[ij[1]].blocks[ij[2]].tool_use_id = id }

\* The result at a place of the log has the error marker in its text.
MarkedAt(ij) ==
    LET content == lines[ij[1]].blocks[ij[2]].content
    IN \/ content.shape = "string" /\ ErrorMarker \in Range(content.str)
       \/ content.shape = "array"
          /\ \E k \in 1..Len(content.parts) : ErrorMarker \in Range(content.parts[k])

\* The summary ends with the error indicator.
HasErrorIndicator(blk) ==
    blk.summary # <<>> /\ blk.summary[Len(blk.summary)] = ErrorSuffix

\* ij is not later in the log than kl.
NotLater(ij, kl) == ij[1] < kl[1] \/ (ij[1] = kl[1] /\ ij[2] <= kl[2])

\* C30 as stated: an invocation's summary has the error indicator exactly
\* when some result of the log linked to its ID has the error marker.
C30_Original ==
    tpc = "done" =>
        \A blk \in ShownTools :
            HasErrorIndicator(blk)
            <=> \E ij \in LinkedResults(blk.toolUseID) : MarkedAt(ij)

\* C30: an invocation's summary has the error indicator exactly when the
\* last result of the log linked to its ID has the error marker, wherever
\* the results are, in displayed entries and meta entries, before and after
\* the invocation; without a linked result there is no indicator.
C30_ErrorIndicatorFromLastResult ==
    tpc = "done" =>
        \A blk \in ShownTools :
            HasErrorIndicator(blk)
            <=> \E ij \in LinkedResults(blk.toolUseID) :
                    /\ MarkedAt(ij)
                    /\ \A kl \in LinkedResults(blk.toolUseID) : NotLater(kl, ij)

\* C30 witness: the transcript of a log whose first entry, a meta entry,
\* is a result with the error marker, and whose last entry is the displayed
\* invocation it is linked to: the one message has the indicator.
C30_Witness ==
    /\ tpc = "done"
    /\ Len(lines) = 3 /\ Len(messages) = 1
    /\ lines[1].isMeta /\ <<1, 1>> \in LinkedResults("t1") /\ MarkedAt(<<1, 1>>)
    /\ lines[3].type = "assistant"
    /\ LinkedResults("t1") = {<<1, 1>>}
    /\ \E blk \in ShownTools : blk.toolUseID = "t1" /\ HasErrorIndicator(blk)

\* C33: when two create-session requests for different sessions on the same
\* node and pane have both gone through their store write and their dedup,
\* exactly one of the two sessions is active.
C33_ConcurrentCreatesLeaveOneActive ==
    \A w, o \in Workers :
        (/\ w # o
         /\ pc[w] = "create_publish" /\ pc[o] = "create_publish"
         /\ req[w].id # req[o].id
         /\ req[w].node = req[o].node
         /\ req[w].pane = req[o].pane /\ req[w].pane # NoPane)
        => Cardinality({id \in {req[w].id, req[o].id} : IsActive(sessions[id])}) = 1

\* C34: no session has more than one session_end event published for it.
C34_AtMostOneSessionEnd ==
    \A id \in IDs : published[<<"session_end", id>>] <= 1

\* C35: when an event for a session is published the store holds the
\* session, and when it is a session_end event the session's stopped_at is
\* set there; a reader that fetches the session on the event finds it so.
C35_EventAfterItsWrite ==
    [][\A type \in EventTypes, id \in IDs :
         published'[<<type, id>>] > published[<<type, id>>]
         => /\ sessions[id].present
            /\ type = "session_end" => ~IsZero(sessions[id].stopped)]_vars

\* C36: once the unsubscribe function of a subscription has returned no
\* event is put on its channel.
C36_NoSendAfterUnsubscribe ==
    [][\A c \in Chans :
         spc[c] = "unsubscribed" => Delivered(c)' = Delivered(c)]_vars

\* C37: no Publish call puts its event on one channel more than once,
\* whatever session ID it is called with, the empty one included.
C37_PublishSendsOncePerSubscriber ==
    \A c \in Chans : \A i, j \in 1..Len(Delivered(c)) :
        Delivered(c)[i] = Delivered(c)[j] => i = j

\* C38: the text of a response to a session is sent to the session's pane
\* only when the session is active in the store.
C38_RespondOnlyToActive ==
    [][\A w \in Workers :
         Took(w, "respond_send", "respond_store")
         => IsActive(sessions[req[w].id]) /\ IsActive(loc[w].sess)]_vars

\* C40: a respond request whose text cannot be delivered is answered with
\* an error, and the handler has written nothing and published nothing:
\* neither the step that reads the session nor the failed send changes the
\* sessions table or publishes an event, and without a healthy agent for
\* the session's node the send fails.
C40_FailedRespondHasNoEffect ==
    [][\A w \in Workers :
         /\ (pc[w] = "idle" /\ pc'[w] = "respond_send")
            => sessions' = sessions /\ published' = published
         /\ (pc[w] = "respond_send" /\ pc'[w] # pc[w])
            => /\ ~IsHealthy(agents, loc[w].sess.node, now) => pc'[w] = "done"
               /\ pc'[w] = "done"
                  => /\ req'[w].op = "respond" /\ req'[w].status = 500
                     /\ sessions' = sessions
                     /\ published' = published
               /\ pc'[w] # "done" => sessions' = sessions /\ published' = published]_vars

\* C40 witness: a respond request for a session got its error while no
\* agent was registered; the table is as it was and nothing was published.
C40_Witness ==
    /\ pc["w1"] = "done" /\ req["w1"].op = "respond" /\ req["w1"].status = 500
    /\ pc["w2"] = "idle"
    /\ sessions \in PersistedTables /\ sessions["s1"].present
    /\ \A k \in EventTypes \X IDs : published[k] = 0
    /\ \A n \in Nodes : ~IsHealthy(agents, n, now)

\* C39: the descendant search returns, whatever the process snapshot and the
\* pane shell PID are, a snapshot whose parent links form a cycle included.
C39_SearchTerminates == (bpc = "test") ~> (bpc = "returned")

\* C31: reconciliation stops a session only if its pane hosts no live agent
\* process at the moment the stop is applied; a session created on a pane
\* after the agent took its snapshot is not stopped by that heartbeat.
C31_StopsOnlyDeadPanes ==
    [][\A w \in Workers :
         Took(w, "reconcile_stop", "reconcile_publish")
         => \A id \in IDs :
               (/\ sessions[id].node = FleetNode
                /\ IsActive(sessions[id]) /\ ~IsActive(sessions'[id]))
               => sessions[id].pane \notin live]_vars

\* C32: when the process of an active session has exited without an
\* end-session request, and the agent of the node keeps heartbeating with a
\* successful detection, the session is eventually marked stopped (or its
\* pane runs a process again), whatever panes remain alive, none included.
C32_DeadSessionEventuallyStopped ==
    \A i \in 1..Len(FleetIDs) :
        (/\ IsActive(sessions[FleetIDs[i]])
         /\ sessions[FleetIDs[i]].pane \in FleetPanes
         /\ sessions[FleetIDs[i]].pane \notin live)
        ~> (\/ ~IsActive(sessions[FleetIDs[i]])
            \/ sessions[FleetIDs[i]].pane \in live)

====
